---- MODULE Spec2Model ----
(***************************************************************************)
(* Concierge: staged tool execution.                                       *)
(*                                                                         *)
(* Two engines live in the repository and both are modelled here:          *)
(*   "sdk"  - Concierge (src/__init__.py): the staged-tool filter over an  *)
(*            MCP server, with the session cursor in a StateBackend.       *)
(*   "core" - Orchestrator + Workflow (src/concierge/core): one cursor     *)
(*            object per session over a shared Workflow blueprint.         *)
(* A process hosts one of them; Init chooses which, and which workflow     *)
(* definition it was started with.                                         *)
(*                                                                         *)
(* Requests are handled as asyncio tasks: a handler runs without           *)
(* interruption up to an await that really suspends (the notification      *)
(* send, a tool handler doing I/O), and other requests may run there.      *)
(***************************************************************************)
EXTENDS Integers, Sequences, FiniteSets, TLC

\* ---------------------------------------------------------------- bounds

\* Requests (sdk) or actions (core) that may be suspended at the same time.
MaxInFlight == 1
\* Longest Orchestrator history the model follows.
MaxHistory == 2

\* ------------------------------------------------------------- constants

None == "<none>"
RequestIds == 1..MaxInFlight
\* Values of the mcp-session-id header; NoSession is a request without it.
SessionIds == {"A", "B"}
NoSession == None
\* The clients a run follows: two sessions, or one session and requests
\* that carry no session id.
ClientSets == {SessionIds, {"A", NoSession}}

PROCEED == "proceed_to_next_stage"
TERMINATE == "terminate_session"
SyntheticTools == {PROCEED, TERMINATE}

Range(f) == {f[x] : x \in DOMAIN f}

\* dict.get(key, default) of a mapping with string keys
Get(map, key, default) == IF key \in DOMAIN map THEN map[key] ELSE default

Empty == [k \in {} |-> None]

\* ---------------------------------------------------- workflow definitions

\* The stock workflow of the example: three stages, every target declared,
\* transact requires the Stock construct (symbol, quantity).
StockWorkflow ==
  [ order         |-> <<"browse", "transact", "portfolio">>,
    tools         |-> [browse    |-> <<"search", "add_to_cart", "view_history">>,
                       transact  |-> <<"buy", "sell">>,
                       portfolio |-> <<"view_holdings", "view_profit">>],
    transitions   |-> [browse    |-> <<"transact", "portfolio">>,
                       transact  |-> <<"portfolio", "browse">>,
                       portfolio |-> <<"browse">>],
    prerequisites |-> [browse |-> {}, transact |-> {"symbol", "quantity"},
                       portfolio |-> {}],
    registered    |-> <<"search", "add_to_cart", "view_history", "buy", "sell",
                        "view_holdings", "view_profit">> ]

\* The workflow of the stages/transitions docstrings: two declared stages and
\* a transitions map that also names "payment", which no stage declares.
CheckoutWorkflow ==
  [ order         |-> <<"browse", "checkout">>,
    tools         |-> [browse   |-> <<"search_items", "view_details">>,
                       checkout |-> <<"add_to_cart", "pay">>],
    transitions   |-> [browse   |-> <<"checkout">>,
                       checkout |-> <<"payment">>,
                       payment  |-> <<>>],
    prerequisites |-> [browse |-> {}, checkout |-> {}],
    registered    |-> <<"search_items", "view_details", "add_to_cart", "pay">> ]

Workflows == {StockWorkflow, CheckoutWorkflow}

\* The same two stages with checkout as the last one: a declared stage with
\* tools of its own and an empty list of transitions.
TerminalWorkflow ==
  [ order         |-> <<"browse", "checkout">>,
    tools         |-> [browse   |-> <<"search_items", "view_details">>,
                       checkout |-> <<"add_to_cart", "pay">>],
    transitions   |-> [browse   |-> <<"checkout">>,
                       checkout |-> <<>>],
    prerequisites |-> [browse |-> {}, checkout |-> {}],
    registered    |-> <<"search_items", "view_details", "add_to_cart", "pay">> ]

\* The stage names a transition request may carry: every name the workflow
\* definition mentions.
TargetNames(w) == Range(w.order) \cup UNION {Range(w.transitions[q]) : q \in DOMAIN w.transitions}
\* The tool names a call may carry: the first tool of every stage,
\* add_to_cart, and "nope", which is registered nowhere.
ToolNames(w) == {w.tools[q][1] : q \in DOMAIN w.tools} \cup {"add_to_cart", "nope"}

Symbols == {"AAPL"}
\* Arguments the handler cannot be called with (a required one is missing):
\* the call raises TypeError
BadArgs == "<bad args>"
Quantity == 10

VARIABLES
  engine,          \* "sdk" or "core"
  clients,         \* the callers whose requests the run follows
  wf,              \* the workflow definition the process was started with
  session_stages,  \* InMemoryBackend._session_stages
  session_state,   \* InMemoryBackend._session_state
  current_stage,   \* Orchestrator.current_stage, per session
  state,           \* Orchestrator.state, per session
  history,         \* Orchestrator.history, per session
  local_state,     \* Stage.local_state, per Stage object of the Workflow
  reqs,            \* suspended handlers, by request id
  event,           \* what the last step did: a response, a notification, ...
  backend,         \* the StateBackend in use: "memory" or "postgres"
  concierge_session_stages,  \* table (session_id, stage), committed rows
  concierge_session_state,   \* table (session_id, key, value), committed rows
  handlers,        \* request_handlers of the server: the handler of each request type
  widgets,         \* Concierge._widgets, by uri: the mode and _last_args of each
  called,          \* per session, what its own last call of each widget tool returned
  pods             \* per server process on one database: the handler it is running

vars == <<engine, clients, wf, session_stages, session_state, current_stage, state,
          history, local_state, reqs, event, backend, concierge_session_stages,
          concierge_session_state, handlers, widgets, called, pods>>

Idle == [pc |-> "idle"]

\* A server without widgets: no widget is registered and the request handlers
\* are the ones the server came with
NoWidgets ==
  /\ handlers = [call_tool |-> "original", read_resource |-> "original"]
  /\ widgets = Empty
  /\ called = Empty
\* The id of a new request: any id no request in flight carries (the model
\* takes the lowest).
IsFreshId(rid) ==
  /\ reqs[rid].pc = "idle"
  /\ \A r \in RequestIds : r < rid => reqs[r].pc # "idle"

\* --------------------------------------------------------- state backend

\* InMemoryBackend.get_session_stage
BackendGetSessionStage(sid) == Get(session_stages, sid, None)

\* InMemoryBackend.set_session_stage (mutant: one slot for all sessions)
BackendSetSessionStage_Shared(sid, stage) ==
  session_stages' = [s \in DOMAIN session_stages \cup {sid} |-> stage]

BackendSetSessionStage(sid, stage) ==
  session_stages' = [s \in DOMAIN session_stages \cup {sid} |->
                       IF s = sid THEN stage ELSE session_stages[s]]

\* InMemoryBackend.get_state
BackendGetState(sid, key) == Get(Get(session_state, sid, Empty), key, None)

\* InMemoryBackend.set_state, for the keys of `kv` one after the other
BackendSetState(sid, kv) ==
  session_state' = [s \in DOMAIN session_state \cup {sid} |->
     IF s = sid
       THEN [k \in DOMAIN Get(session_state, sid, Empty) \cup DOMAIN kv |->
               IF k \in DOMAIN kv THEN kv[k] ELSE session_state[sid][k]]
       ELSE session_state[s]]

\* InMemoryBackend.clear_session (mutant: only the stage is dropped)
BackendClearSession_StageOnly(sid) ==
  /\ session_stages' = [s \in DOMAIN session_stages \ {sid} |-> session_stages[s]]
  /\ UNCHANGED session_state

BackendClearSession(sid) ==
  /\ session_stages' = [s \in DOMAIN session_stages \ {sid} |-> session_stages[s]]
  /\ session_state' = [s \in DOMAIN session_state \ {sid} |-> session_state[s]]

\* ------------------------------------------------- sdk: Concierge helpers

\* Concierge._default_stage: the first declared stage
DefaultStage == wf.order[1]

\* Concierge._stages, read with .get(stage, [])
StageTools(stage) == Get(wf.tools, stage, <<>>)

\* Concierge._transitions, read with .get(stage, []) (mutant: every declared
\* stage is a permitted target)
Transitions_AnyStage(stage) == wf.order

Transitions(stage) == Get(wf.transitions, stage, <<>>)

\* Concierge._is_terminal_stage
IsTerminalStage(stage) == Transitions(stage) = <<>>

\* Concierge._get_session_stage
GetSessionStage(sid) ==
  IF sid # NoSession /\ BackendGetSessionStage(sid) # None
    THEN BackendGetSessionStage(sid)
    ELSE DefaultStage

\* Concierge._set_session_stage
SetSessionStage(sid, stage) ==
  IF sid # NoSession
    THEN BackendSetSessionStage(sid, stage)
    ELSE UNCHANGED session_stages

\* What original_list_tools() returns once _setup_staged_tools has registered
\* the two synthetic tools: every registered tool, in registration order.
AllTools == wf.registered \o <<PROCEED, TERMINATE>>

\* filtered_list_tools (mutant: the tools come in the order of the stage's
\* own list)
FilteredListTools_StageOrder(sid) ==
  LET current_stage_ == GetSessionStage(sid)
      next_stages == Transitions(current_stage_)
      Registered(t) == t \in Range(wf.registered)
  IN [ tools |-> SelectSeq(StageTools(current_stage_), Registered)
                 \o (IF next_stages # <<>> THEN <<PROCEED>> ELSE <<>>)
                 \o <<TERMINATE>>,
       enum  |-> next_stages ]

\* filtered_list_tools (mutant: every registered tool is visible)
FilteredListTools_Unfiltered(sid) ==
  LET current_stage_ == GetSessionStage(sid)
      next_stages == Transitions(current_stage_)
  IN [ tools |-> wf.registered
                 \o (IF next_stages # <<>> THEN <<PROCEED>> ELSE <<>>)
                 \o <<TERMINATE>>,
       enum  |-> next_stages ]

\* filtered_list_tools: the visible tool names, in order, and the enum of
\* proceed_to_next_stage's target_stage (empty when the tool is not listed)
FilteredListTools(sid) ==
  LET current_stage_ == GetSessionStage(sid)
      current_stage_tool_names == Range(StageTools(current_stage_))
      next_stages == Transitions(current_stage_)
      InStage(t) == t \in current_stage_tool_names
  IN [ tools |-> SelectSeq(AllTools, InStage)
                 \o (IF next_stages # <<>> THEN <<PROCEED>> ELSE <<>>)
                 \o <<TERMINATE>>,
       enum  |-> next_stages ]

\* What a registered tool's handler stores: add_to_cart keeps the chosen
\* symbol and quantity, the other tools of the workflows store nothing.
ToolWrites(tool, symbol) ==
  IF tool = "add_to_cart"
    THEN [k \in {"symbol", "quantity"} |->
            IF k = "symbol" THEN symbol ELSE Quantity]
    ELSE Empty

\* What a step that sends nothing leaves in `event`: which handler ran, for
\* which caller and request.
Step(op, sid, rid, target) ==
  [kind |-> "step", phase |-> "start", op |-> op, sid |-> sid, rid |-> rid,
   target |-> target]

\* The engines never replace the backend object, and with the in-memory one
\* in use no request reaches the database tables; the stage and tool handlers
\* touch neither the widgets nor the request handlers.
PostgresUnchanged ==
  UNCHANGED <<backend, concierge_session_stages, concierge_session_state,
              handlers, widgets, called, pods>>

CoreUnchanged ==
  UNCHANGED <<current_stage, state, history, local_state>> /\ PostgresUnchanged
SdkUnchanged == UNCHANGED <<session_stages, session_state>> /\ PostgresUnchanged

\* ------------------------------------------------------- sdk: the handlers

\* What _get_session_stage does to the backend: get_session_stage reads with
\* dict.get and the default stage is returned, not stored (mutant: the stage
\* is read with setdefault, so a session seen for the first time gets an
\* entry)
ReadSessionStage_SetDefault(sid) ==
  /\ session_stages' =
       IF sid = NoSession \/ sid \in DOMAIN session_stages THEN session_stages
       ELSE [s \in DOMAIN session_stages \cup {sid} |->
               IF s = sid THEN DefaultStage ELSE session_stages[s]]
  /\ UNCHANGED session_state

ReadSessionStage(sid) == UNCHANGED <<session_stages, session_state>>

\* list_tools request: filtered_list_tools. Its only await is the server's
\* own list_tools coroutine, which returns without suspending.
ListTools(sid) ==
  /\ engine = "sdk"
  /\ event' = [kind |-> "response", phase |-> "start", op |-> "list_tools",
               sid |-> sid, result |-> FilteredListTools(sid)]
  /\ ReadSessionStage(sid)
  /\ UNCHANGED <<engine, clients, wf, reqs>>
  /\ CoreUnchanged

\* await req_ctx.session.send_notification(...): the handler is suspended
\* until SendNotification (mutant: the handler goes on without sending)
AwaitNotification_Skipped(rid, handler) ==
  reqs' = [reqs EXCEPT ![rid] = [handler EXCEPT !.pc = "return"]]

AwaitNotification(rid, handler) ==
  reqs' = [reqs EXCEPT ![rid] = [handler EXCEPT !.pc = "notify"]]

\* call_tool proceed_to_next_stage: _handle_next_stage up to the await of
\* send_notification
HandleNextStage(rid, sid, target_stage) ==
  LET current == GetSessionStage(sid)
      allowed == Transitions(current)
  IN
  /\ engine = "sdk"
  /\ IsFreshId(rid)
  /\ IF target_stage \notin Range(allowed)
       THEN /\ event' = [kind |-> "response", phase |-> "start", op |-> PROCEED,
                         sid |-> sid, rid |-> rid, target |-> target_stage,
                         result |-> [error |-> "Cannot transition",
                                     allowed_transitions |-> allowed,
                                     current_stage |-> current]]
            /\ UNCHANGED <<reqs, session_stages>>
       ELSE /\ SetSessionStage(sid, target_stage)
            /\ AwaitNotification(rid,
                 [pc |-> "start", op |-> PROCEED, sid |-> sid, stored |-> TRUE,
                  notified |-> FALSE,
                  result |-> [status |-> "transitioned", from_stage |-> current,
                              to_stage |-> target_stage]])
            /\ event' = Step(PROCEED, sid, rid, target_stage)
  /\ UNCHANGED <<engine, clients, wf, session_state>>
  /\ CoreUnchanged

\* call_tool terminate_session: _handle_terminate_session up to the await of
\* send_notification
HandleTerminateSession(rid, sid) ==
  LET current == GetSessionStage(sid)
  IN
  /\ engine = "sdk"
  /\ IsFreshId(rid)
  /\ IF sid # NoSession
       THEN BackendClearSession(sid)
       ELSE SdkUnchanged
  /\ AwaitNotification(rid,
       [pc |-> "start", op |-> TERMINATE, sid |-> sid, stored |-> FALSE,
        notified |-> FALSE,
        result |-> [status |-> "terminated", previous_stage |-> current]])
  /\ event' = Step(TERMINATE, sid, rid, None)
  /\ UNCHANGED <<engine, clients, wf>>
  /\ CoreUnchanged

\* req_ctx.session.send_notification(ToolListChangedNotification,
\* related_request_id=req_ctx.request_id) completes
SendNotification(rid) ==
  /\ engine = "sdk"
  /\ reqs[rid].pc = "notify"
  /\ reqs' = [reqs EXCEPT ![rid].pc = "return", ![rid].notified = TRUE]
  /\ event' = [kind |-> "notification", phase |-> "resume",
               op |-> "tool_list_changed", sid |-> reqs[rid].sid,
               related_request_id |-> rid]
  /\ UNCHANGED <<engine, clients, wf>>
  /\ SdkUnchanged /\ CoreUnchanged

\* the handler returns its result, which becomes the call_tool response
ReturnResult(rid) ==
  /\ engine = "sdk"
  /\ reqs[rid].pc = "return"
  /\ event' = [kind |-> "response", phase |-> "resume", op |-> reqs[rid].op,
               sid |-> reqs[rid].sid, rid |-> rid, result |-> reqs[rid].result,
               stored |-> reqs[rid].stored, notified |-> reqs[rid].notified]
  /\ reqs' = [reqs EXCEPT ![rid] = Idle]
  /\ UNCHANGED <<engine, clients, wf>>
  /\ SdkUnchanged /\ CoreUnchanged

\* call_tool of any other name: the server's tool manager holds every served
\* tool (_finalize) and dispatches by name alone; the handler stores through
\* Concierge.set_state under the request's session id.
CallTool(sid, name, symbol) ==
  /\ engine = "sdk"
  /\ name \notin SyntheticTools
  /\ IF name \in Range(wf.registered)
       THEN /\ event' = [kind |-> "response", phase |-> "start",
                         op |-> "call_tool", sid |-> sid, tool |-> name,
                         result |-> [status |-> "ok", ran |-> name]]
            /\ IF ToolWrites(name, symbol) # Empty
                 THEN BackendSetState(sid, ToolWrites(name, symbol))
                 ELSE UNCHANGED session_state
       ELSE /\ event' = [kind |-> "response", phase |-> "start",
                         op |-> "call_tool", sid |-> sid, tool |-> name,
                         result |-> [status |-> "ToolNotFound", ran |-> None]]
            /\ UNCHANGED session_state
  /\ UNCHANGED <<engine, clients, wf, session_stages, reqs>>
  /\ CoreUnchanged

SdkNext ==
  \/ \E sid \in clients : ListTools(sid)
  \/ \E rid \in RequestIds, sid \in clients, t \in TargetNames(wf) :
       HandleNextStage(rid, sid, t)
  \/ \E rid \in RequestIds, sid \in clients : HandleTerminateSession(rid, sid)
  \/ \E rid \in RequestIds : SendNotification(rid)
  \/ \E rid \in RequestIds : ReturnResult(rid)
  \/ \E sid \in clients, name \in ToolNames(wf), symbol \in Symbols :
       CallTool(sid, name, symbol)

\* ------------------------------------------------ core: Workflow helpers

\* Workflow.stages: the declared Stage objects, by name
DeclaredStages == DOMAIN wf.tools

\* Stage.can_transition_to, reached through Workflow.can_transition
CanTransition(from_stage, to_stage) ==
  to_stage \in Range(wf.transitions[from_stage])

\* Stage.get_missing_prerequisites: the required keys the state lacks
MissingPrerequisites(stage, global_state) ==
  wf.prerequisites[stage] \ DOMAIN global_state

\* Workflow.validate_transition (mutant: missing prerequisites are reported
\* without the "missing" key, as any other invalid transition)
ValidateTransition_MissingAsError(from_stage, to_stage, global_state) ==
  IF ~CanTransition(from_stage, to_stage)
    THEN [valid |-> FALSE, kind |-> "adjacency",
          allowed |-> wf.transitions[from_stage], missing |-> {}]
    ELSE IF to_stage \notin DeclaredStages
      THEN [valid |-> FALSE, kind |-> "raise", allowed |-> <<>>, missing |-> {}]
      ELSE IF MissingPrerequisites(to_stage, global_state) # {}
        THEN [valid |-> FALSE, kind |-> "adjacency", allowed |-> <<>>,
              missing |-> {}]
        ELSE [valid |-> TRUE, kind |-> "valid", allowed |-> <<>>, missing |-> {}]

\* Workflow.validate_transition with the two checks in the other order
\* (mutant: the prerequisites of a declared target are looked at first)
ValidateTransition_PrerequisitesFirst(from_stage, to_stage, global_state) ==
  IF to_stage \in DeclaredStages /\ MissingPrerequisites(to_stage, global_state) # {}
    THEN [valid |-> FALSE, kind |-> "missing", allowed |-> <<>>,
          missing |-> MissingPrerequisites(to_stage, global_state)]
    ELSE IF ~CanTransition(from_stage, to_stage)
      THEN [valid |-> FALSE, kind |-> "adjacency",
            allowed |-> wf.transitions[from_stage], missing |-> {}]
      ELSE IF to_stage \notin DeclaredStages
        THEN [valid |-> FALSE, kind |-> "raise", allowed |-> <<>>, missing |-> {}]
        ELSE [valid |-> TRUE, kind |-> "valid", allowed |-> <<>>, missing |-> {}]

\* Workflow.validate_transition; "raise" is get_stage's ValueError for a
\* target that can_transition accepts and no stage declares
ValidateTransition(from_stage, to_stage, global_state) ==
  IF ~CanTransition(from_stage, to_stage)
    THEN [valid |-> FALSE, kind |-> "adjacency",
          allowed |-> wf.transitions[from_stage], missing |-> {}]
    ELSE IF to_stage \notin DeclaredStages
      THEN [valid |-> FALSE, kind |-> "raise", allowed |-> <<>>, missing |-> {}]
      ELSE IF MissingPrerequisites(to_stage, global_state) # {}
        THEN [valid |-> FALSE, kind |-> "missing", allowed |-> <<>>,
              missing |-> MissingPrerequisites(to_stage, global_state)]
        ELSE [valid |-> TRUE, kind |-> "valid", allowed |-> <<>>, missing |-> {}]

\* State.set for every key of `kv`
StateSet(st, kv) ==
  [k \in DOMAIN st \cup DOMAIN kv |-> IF k \in DOMAIN kv THEN kv[k] ELSE st[k]]

\* What a tool handler returns: buy and sell report the symbol they read from
\* the state they are given, the other tools a fixed text.
ToolResult(tool, st) ==
  IF tool \in {"buy", "sell"} THEN Get(st, "symbol", None) ELSE "ok"

\* Actions of session s that are suspended in their tool handler
InFlight(s) == {r \in RequestIds : reqs[r].pc # "idle" /\ reqs[r].sid = s}

\* The model follows a history up to MaxHistory records: an action that
\* would append one more is not taken, one that appends nothing always is.
HistoryRoom(s) == Len(history[s]) + Cardinality(InFlight(s)) < MaxHistory

\* --------------------------------------------- core: Orchestrator actions

\* Workflow.call_tool when tool.execute raises (mutant: the exception leaves
\* call_tool and process_action)
ToolError_Propagates(s, tool_name) ==
  [kind |-> "exception", phase |-> "start", op |-> "tool", sid |-> s,
   tool |-> tool_name]

ToolError(s, tool_name) ==
  [kind |-> "response", phase |-> "start", op |-> "tool", sid |-> s,
   tool |-> tool_name,
   result |-> [type |-> "tool_error", tool |-> tool_name,
               error |-> "TypeError"]]

\* process_action with a tool action, up to the await of tool.execute inside
\* Workflow.call_tool: the handler has run on the stage's local_state and is
\* suspended before it returns.
ProcessToolAction(rid, s, tool_name, symbol) ==
  LET stage == current_stage[s]
  IN
  /\ engine = "core"
  /\ IsFreshId(rid)
  /\ (tool_name \in Range(wf.tools[stage]) /\ symbol # BadArgs) => HistoryRoom(s)
  /\ IF tool_name \notin Range(wf.tools[stage])
       THEN /\ event' = [kind |-> "response", phase |-> "start",
                         op |-> "tool", sid |-> s, tool |-> tool_name,
                         result |-> [type |-> "error",
                                     available |-> wf.tools[stage]]]
            /\ UNCHANGED <<local_state, reqs>>
       ELSE IF symbol = BadArgs
         THEN /\ event' = ToolError(s, tool_name)
              /\ UNCHANGED <<local_state, reqs>>
         ELSE /\ local_state' = [local_state EXCEPT ![stage] =
                                   StateSet(@, ToolWrites(tool_name, symbol))]
              /\ reqs' = [reqs EXCEPT ![rid] =
                   [pc |-> "executing", op |-> "tool", sid |-> s,
                    tool |-> tool_name, args |-> symbol,
                    result |-> ToolResult(tool_name, local_state[stage])]]
              /\ event' = Step("tool", s, rid, None)
  /\ UNCHANGED <<engine, clients, wf, current_stage, state, history>>
  /\ SdkUnchanged

\* tool.execute returns (mutant: the tool_result is returned and no record
\* is appended)
CompleteToolAction_NoRecord(rid) ==
  /\ engine = "core"
  /\ reqs[rid].pc = "executing"
  /\ event' = [kind |-> "response", phase |-> "resume", op |-> "tool",
               sid |-> reqs[rid].sid, rid |-> rid, tool |-> reqs[rid].tool,
               result |-> [type |-> "tool_result", tool |-> reqs[rid].tool,
                           result |-> reqs[rid].result]]
  /\ reqs' = [reqs EXCEPT ![rid] = Idle]
  /\ UNCHANGED <<engine, clients, wf, current_stage, state, local_state, history>>
  /\ SdkUnchanged

\* tool.execute returns: _handle_tool_action appends the tool record and
\* returns the tool_result
CompleteToolAction(rid) ==
  LET s == reqs[rid].sid
  IN
  /\ engine = "core"
  /\ reqs[rid].pc = "executing"
  /\ history' = [history EXCEPT ![s] =
       Append(@, [action |-> "tool", tool |-> reqs[rid].tool,
                  args |-> reqs[rid].args, result |-> reqs[rid].result])]
  /\ event' = [kind |-> "response", phase |-> "resume", op |-> "tool",
               sid |-> s, rid |-> rid, tool |-> reqs[rid].tool,
               result |-> [type |-> "tool_result", tool |-> reqs[rid].tool,
                           result |-> reqs[rid].result]]
  /\ reqs' = [reqs EXCEPT ![rid] = Idle]
  /\ UNCHANGED <<engine, clients, wf, current_stage, state, local_state>>
  /\ SdkUnchanged

\* The record _handle_transition appends to the history (mutant: every
\* record names the initial stage as the stage it leaves)
TransitionRecord_Stale(stage, target_stage_name) ==
  [action |-> "transition", from |-> wf.order[1], to |-> target_stage_name]

TransitionRecord(stage, target_stage_name) ==
  [action |-> "transition", from |-> stage, to |-> target_stage_name]

\* process_action with a transition action: _handle_transition
ProcessTransition(s, target_stage_name) ==
  LET stage == current_stage[s]
      validation == ValidateTransition(stage, target_stage_name, state[s])
  IN
  /\ engine = "core"
  /\ validation.valid => HistoryRoom(s)
  /\ IF validation.valid
       THEN /\ local_state' = [local_state EXCEPT ![target_stage_name] = Empty]
            /\ current_stage' = [current_stage EXCEPT ![s] = target_stage_name]
            /\ history' = [history EXCEPT ![s] =
                 Append(@, TransitionRecord(stage, target_stage_name))]
            /\ event' = [kind |-> "response", phase |-> "start",
                         op |-> "transition", sid |-> s,
                         target |-> target_stage_name,
                         result |-> [type |-> "transitioned", from |-> stage,
                                     to |-> target_stage_name]]
       ELSE /\ event' =
                 IF validation.kind = "raise"
                   THEN [kind |-> "exception", phase |-> "start",
                         op |-> "transition", sid |-> s,
                         target |-> target_stage_name]
                   ELSE [kind |-> "response", phase |-> "start",
                         op |-> "transition", sid |-> s,
                         target |-> target_stage_name,
                         result |-> IF validation.kind = "missing"
                           THEN [type |-> "elicit_required",
                                 missing |-> validation.missing]
                           ELSE [type |-> "error",
                                 allowed |-> validation.allowed]]
            /\ UNCHANGED <<local_state, current_stage, history>>
  /\ UNCHANGED <<engine, clients, wf, state, reqs>>
  /\ SdkUnchanged

\* process_action with an elicit action, a respond action or any other type
\* (mutant: a type that is not known raises, and the action is recorded)
ProcessOther_Recorded(s, action_type) ==
  /\ engine = "core"
  /\ HistoryRoom(s)
  /\ event' = [kind |-> IF action_type \in {"elicit", "respond"} THEN "response"
                        ELSE "exception",
               phase |-> "start", op |-> action_type, sid |-> s,
               result |-> [type |-> action_type]]
  /\ history' = [history EXCEPT ![s] = Append(@, [action |-> action_type])]
  /\ UNCHANGED <<engine, clients, wf, reqs, current_stage, state, local_state>>
  /\ SdkUnchanged

ProcessOther(s, action_type) ==
  /\ engine = "core"
  /\ event' = [kind |-> "response", phase |-> "start", op |-> action_type,
               sid |-> s,
               result |-> [type |-> IF action_type = "elicit" THEN "elicit"
                                    ELSE IF action_type = "respond" THEN "response"
                                    ELSE "error"]]
  /\ UNCHANGED <<engine, clients, wf, reqs>>
  /\ SdkUnchanged /\ CoreUnchanged

CoreNext ==
  \/ \E rid \in RequestIds, s \in clients, name \in ToolNames(wf),
        symbol \in Symbols \cup {BadArgs} :
          ProcessToolAction(rid, s, name, symbol)
  \/ \E rid \in RequestIds : CompleteToolAction(rid)
  \/ \E s \in clients, t \in TargetNames(wf) : ProcessTransition(s, t)
  \/ \E s \in clients, a \in {"elicit", "respond", "bogus"} : ProcessOther(s, a)

Init ==
  /\ engine \in {"sdk", "core"}
  /\ clients \in ClientSets
  /\ engine = "core" => clients = SessionIds
  /\ wf \in Workflows
  /\ session_stages = Empty
  /\ session_state = Empty
  /\ current_stage = [s \in SessionIds |-> wf.order[1]]
  /\ state = [s \in SessionIds |-> Empty]
  /\ history = [s \in SessionIds |-> <<>>]
  /\ local_state = [q \in DOMAIN wf.tools |-> Empty]
  /\ reqs = [r \in RequestIds |-> Idle]
  /\ event = [kind |-> "init", phase |-> "init", op |-> None, sid |-> NoSession]
  /\ backend = "memory"
  /\ concierge_session_stages = Empty
  /\ concierge_session_state = Empty
  /\ NoWidgets
  /\ pods = Empty

Next == SdkNext \/ CoreNext

Spec == Init /\ [][Next]_vars

\* A process that serves the staged-tool filter only
SdkInit == Init /\ engine = "sdk"

SdkSpec == SdkInit /\ [][SdkNext]_vars

\* A process that hosts Orchestrator sessions only
CoreInit == Init /\ engine = "core"

CoreSpec == CoreInit /\ [][CoreNext]_vars

\* A process started with the workflow whose last stage is terminal
TerminalInit ==
  /\ engine \in {"sdk", "core"}
  /\ clients \in ClientSets
  /\ engine = "core" => clients = SessionIds
  /\ wf = TerminalWorkflow
  /\ session_stages = Empty
  /\ session_state = Empty
  /\ current_stage = [s \in SessionIds |-> wf.order[1]]
  /\ state = [s \in SessionIds |-> Empty]
  /\ history = [s \in SessionIds |-> <<>>]
  /\ local_state = [q \in DOMAIN wf.tools |-> Empty]
  /\ reqs = [r \in RequestIds |-> Idle]
  /\ event = [kind |-> "init", phase |-> "init", op |-> None, sid |-> NoSession]
  /\ backend = "memory"
  /\ concierge_session_stages = Empty
  /\ concierge_session_state = Empty
  /\ NoWidgets
  /\ pods = Empty

TerminalSpec == TerminalInit /\ [][Next]_vars

\* A process whose stages were assigned with app.stages = {...} in an order
\* of their own: view_details is listed before search_items in browse and
\* pay before add_to_cart in checkout, while the tools were registered with
\* the server as search_items, view_details, add_to_cart, pay.
ReorderedWorkflow ==
  [ order         |-> <<"browse", "checkout">>,
    tools         |-> [browse   |-> <<"view_details", "search_items">>,
                       checkout |-> <<"pay", "add_to_cart">>],
    transitions   |-> [browse   |-> <<"checkout">>,
                       checkout |-> <<"browse">>],
    prerequisites |-> [browse |-> {}, checkout |-> {}],
    registered    |-> <<"search_items", "view_details", "add_to_cart", "pay">> ]

ReorderedInit ==
  /\ engine = "sdk"
  /\ clients \in ClientSets
  /\ wf = ReorderedWorkflow
  /\ session_stages = Empty
  /\ session_state = Empty
  /\ current_stage = [s \in SessionIds |-> wf.order[1]]
  /\ state = [s \in SessionIds |-> Empty]
  /\ history = [s \in SessionIds |-> <<>>]
  /\ local_state = [q \in DOMAIN wf.tools |-> Empty]
  /\ reqs = [r \in RequestIds |-> Idle]
  /\ event = [kind |-> "init", phase |-> "init", op |-> None, sid |-> NoSession]
  /\ backend = "memory"
  /\ concierge_session_stages = Empty
  /\ concierge_session_state = Empty
  /\ NoWidgets
  /\ pods = Empty

ReorderedSpec == ReorderedInit /\ [][SdkNext]_vars

\* ------------------------------------------------ the @workflow decorator

\* The stage classes a workflow class may list (first listed = initial), in
\* every order, and the lists a transitions dict may give for a key. "payment"
\* is a name no stage class carries.
StageLists ==
  {<<>>, <<"browse">>, <<"checkout">>, <<"browse", "checkout">>,
   <<"checkout", "browse">>}
TransitionKeys == {"browse", "checkout", "payment"}
TargetLists == {<<>>, <<"checkout">>, <<"payment">>, <<"browse", "payment">>}
\* The transitions attribute: a dict over any of the keys (the empty dict
\* stands for a class without the attribute as well: both skip the wiring)
TransitionDefs == UNION {[K -> TargetLists] : K \in SUBSET TransitionKeys}
Declarations == [stages : StageLists, transitions : TransitionDefs]

\* Workflow(name): no stage yet
EmptyWorkflow ==
  [ order |-> <<>>, tools |-> Empty, transitions |-> Empty,
    prerequisites |-> Empty, registered |-> <<>> ]

\* workflow.__call__: add_stage for every stage class in definition order,
\* then, for every key of the transitions dict that names an added stage,
\* replace that stage's transitions by the listed names. Keys that name no
\* added stage are skipped; the listed names are stored as they are.
BuildWorkflow(decl) ==
  LET names == Range(decl.stages)
  IN [ order         |-> decl.stages,
       tools         |-> [q \in names |-> TerminalWorkflow.tools[q]],
       transitions   |-> [q \in names |->
                            IF q \in DOMAIN decl.transitions
                              THEN decl.transitions[q] ELSE <<>>],
       prerequisites |-> [q \in names |-> {}],
       registered    |-> <<>> ]

\* Decorating one workflow class
Build(decl) ==
  /\ wf' = BuildWorkflow(decl)
  /\ event' = [kind |-> "response", phase |-> "start", op |-> "workflow",
               sid |-> NoSession, decl |-> decl]
  /\ UNCHANGED <<engine, clients, session_stages, session_state, current_stage,
                 state, history, local_state, reqs>>
  /\ PostgresUnchanged

\* Import time: no engine is running, classes are being decorated
BuildInit ==
  /\ engine = None
  /\ clients = {}
  /\ wf = EmptyWorkflow
  /\ session_stages = Empty
  /\ session_state = Empty
  /\ current_stage = Empty
  /\ state = Empty
  /\ history = Empty
  /\ local_state = Empty
  /\ reqs = [r \in RequestIds |-> Idle]
  /\ event = [kind |-> "init", phase |-> "init", op |-> None, sid |-> NoSession]
  /\ backend = "memory"
  /\ concierge_session_stages = Empty
  /\ concierge_session_state = Empty
  /\ NoWidgets
  /\ pods = Empty

BuildNext == \E decl \in Declarations : Build(decl)

BuildSpec == BuildInit /\ [][BuildNext]_vars

\* ------------------------------------------- the state backends, directly

\* What a caller of the StateBackend interface passes: a stage name, a key
\* that is written and one that never is, and Python values written by their
\* repr: a str, a tuple, a list, and an object json cannot encode.
StageValues == {"browse", "checkout"}
WrittenKey == "symbol"
StateKeys == {WrittenKey, "missing_key"}
PyStr == "'AAPL'"
PyTuple == "('AAPL', 10)"
PyList == "['AAPL', 10]"
PyObject == "<object object>"
StateValues == {PyStr, PyTuple, PyObject}
TypeError == "TypeError"
OperationalError == "OperationalError"

\* json.dumps(value): a str becomes a JSON string, a tuple and a list both
\* become a JSON array, anything json has no encoder for raises TypeError.
JsonDumps(value) ==
  CASE value = PyStr -> "\"AAPL\""
    [] value \in {PyTuple, PyList} -> "[\"AAPL\", 10]"
    [] OTHER -> TypeError

\* What the driver hands back for a JSONB column: the decoded document; a
\* JSON string is a str, a JSON array is a list.
JsonLoads(text) ==
  CASE text = "\"AAPL\"" -> PyStr
    [] text = "[\"AAPL\", 10]" -> PyList
    [] OTHER -> None

\* InMemoryBackend.delete_session_stage (mutant: the session is put back to
\* the first stage instead of being removed)
BackendDeleteSessionStage_Reset(sid) ==
  session_stages' = [s \in DOMAIN session_stages \cup {sid} |->
                       IF s = sid THEN "browse" ELSE session_stages[s]]

BackendDeleteSessionStage(sid) ==
  session_stages' = [s \in DOMAIN session_stages \ {sid} |-> session_stages[s]]

\* The record a backend call leaves in `event`
BackendEvent(kind, op, sid, key, value, result) ==
  [kind |-> kind, phase |-> "backend", op |-> op, sid |-> sid, key |-> key,
   value |-> value, result |-> result]

\* A call that raised: the exception, and how many of its statements had run
Raised(op, sid, key, value, error, executed) ==
  [kind |-> "exception", phase |-> "backend", op |-> op, sid |-> sid,
   key |-> key, value |-> value, result |-> error, executed |-> executed]

EnginesUnchanged ==
  UNCHANGED <<engine, clients, wf, current_stage, state, history, local_state,
              backend, handlers, widgets, called, pods>>
TablesUnchanged ==
  UNCHANGED <<concierge_session_stages, concierge_session_state>>
DictsUnchanged == UNCHANGED <<session_stages, session_state>>

\* ---- InMemoryBackend: no call awaits, so each runs as one step

MemGetSessionStage(sid) ==
  /\ backend = "memory"
  /\ event' = BackendEvent("response", "get_session_stage", sid, None, None,
                           BackendGetSessionStage(sid))
  /\ DictsUnchanged /\ TablesUnchanged /\ EnginesUnchanged /\ UNCHANGED reqs

MemSetSessionStage(sid, stage) ==
  /\ backend = "memory"
  /\ BackendSetSessionStage(sid, stage)
  /\ event' = BackendEvent("response", "set_session_stage", sid, None, stage, None)
  /\ UNCHANGED session_state
  /\ TablesUnchanged /\ EnginesUnchanged /\ UNCHANGED reqs

MemDeleteSessionStage(sid) ==
  /\ backend = "memory"
  /\ BackendDeleteSessionStage(sid)
  /\ event' = BackendEvent("response", "delete_session_stage", sid, None, None, None)
  /\ UNCHANGED session_state
  /\ TablesUnchanged /\ EnginesUnchanged /\ UNCHANGED reqs

\* (mutant of get_state: the session dict is fetched with setdefault, which
\* creates it)
MemGetState_SetDefault(sid, key) ==
  /\ backend = "memory"
  /\ event' = BackendEvent("response", "get_state", sid, key, None,
                           BackendGetState(sid, key))
  /\ session_state' = [s \in DOMAIN session_state \cup {sid} |->
                         Get(session_state, s, Empty)]
  /\ UNCHANGED session_stages
  /\ TablesUnchanged /\ EnginesUnchanged /\ UNCHANGED reqs

MemGetState(sid, key) ==
  /\ backend = "memory"
  /\ event' = BackendEvent("response", "get_state", sid, key, None,
                           BackendGetState(sid, key))
  /\ DictsUnchanged /\ TablesUnchanged /\ EnginesUnchanged /\ UNCHANGED reqs

MemSetState(sid, key, value) ==
  /\ backend = "memory"
  /\ BackendSetState(sid, [k \in {key} |-> value])
  /\ event' = BackendEvent("response", "set_state", sid, key, value, None)
  /\ UNCHANGED session_stages
  /\ TablesUnchanged /\ EnginesUnchanged /\ UNCHANGED reqs

MemClearSession(sid) ==
  /\ backend = "memory"
  /\ BackendClearSession(sid)
  /\ event' = BackendEvent("response", "clear_session", sid, None, None, None)
  /\ TablesUnchanged /\ EnginesUnchanged /\ UNCHANGED reqs

\* ---- PostgresBackend: every call is one transaction on a pooled connection

\* The statements that change rows, in the order the call executes them.
\* `rows` is filled in when the statement runs: the rows it changed.
Statement(sql, sid, key, value) ==
  [sql |-> sql, sid |-> sid, key |-> key, value |-> value, rows |-> {}]

\* The statements of each call (mutant: delete_session_stage deletes the
\* rows of both tables, as clear_session does)
Statements_DeleteClears(op, sid, key, value) ==
  CASE op = "set_session_stage" ->
         <<Statement("upsert_stage", sid, None, value)>>
    [] op = "set_state" ->
         <<Statement("upsert_state", sid, key, JsonDumps(value))>>
    [] op \in {"delete_session_stage", "clear_session"} ->
         <<Statement("delete_stage", sid, None, None),
           Statement("delete_state", sid, None, None)>>

Statements(op, sid, key, value) ==
  CASE op = "set_session_stage" ->
         <<Statement("upsert_stage", sid, None, value)>>
    [] op = "delete_session_stage" ->
         <<Statement("delete_stage", sid, None, None)>>
    [] op = "set_state" ->
         <<Statement("upsert_state", sid, key, JsonDumps(value))>>
    [] op = "clear_session" ->
         <<Statement("delete_stage", sid, None, None),
           Statement("delete_state", sid, None, None)>>

\* INSERT ... ON CONFLICT (session_id) DO UPDATE SET stage = EXCLUDED.stage
\* (mutant: ON CONFLICT DO NOTHING, the first row stays)
UpsertStage_DoNothing(stages, sid, stage) ==
  [s \in DOMAIN stages \cup {sid} |-> IF s \in DOMAIN stages THEN stages[s] ELSE stage]

UpsertStage(stages, sid, stage) ==
  [s \in DOMAIN stages \cup {sid} |-> IF s = sid THEN stage ELSE stages[s]]

\* INSERT ... ON CONFLICT (session_id, key) DO UPDATE SET value = EXCLUDED.value
UpsertState(rows, sid, key, value) ==
  [r \in DOMAIN rows \cup {<<sid, key>>} |->
     IF r = <<sid, key>> THEN value ELSE rows[r]]

\* DELETE FROM concierge_session_stages WHERE session_id = %s: the rows matched
MatchStage(stages, sid) == {s \in DOMAIN stages : s = sid}

\* DELETE FROM concierge_session_state WHERE session_id = %s: the rows
\* matched (mutant: the WHERE clause is missing)
MatchState_EveryRow(rows, sid) == DOMAIN rows

MatchState(rows, sid) == {x \in DOMAIN rows : x[1] = sid}

\* The rows a statement changes when it runs against the committed rows
\* (READ COMMITTED): an upsert its key, a delete the rows it matches.
Touched(tables, stmt) ==
  CASE stmt.sql = "upsert_stage" -> {<<"stages", stmt.sid, None>>}
    [] stmt.sql = "delete_stage" ->
         {<<"stages", x, None>> : x \in MatchStage(tables.stages, stmt.sid)}
    [] stmt.sql = "upsert_state" -> {<<"state", stmt.sid, stmt.key>>}
    [] stmt.sql = "delete_state" ->
         {<<"state", x[1], x[2]>> : x \in MatchState(tables.state, stmt.sid)}

\* The effect of one statement that ran on the two tables
ApplyStatement(tables, stmt) ==
  CASE stmt.sql = "upsert_stage" ->
         [tables EXCEPT !.stages = UpsertStage(@, stmt.sid, stmt.value)]
    [] stmt.sql = "delete_stage" ->
         [tables EXCEPT !.stages =
            [x \in DOMAIN @ \ {r[2] : r \in stmt.rows} |-> @[x]]]
    [] stmt.sql = "upsert_state" ->
         [tables EXCEPT !.state = UpsertState(@, stmt.sid, stmt.key, stmt.value)]
    [] stmt.sql = "delete_state" ->
         [tables EXCEPT !.state =
            [x \in DOMAIN @ \ {<<r[2], r[3]>> : r \in stmt.rows} |-> @[x]]]

RECURSIVE ApplyStatements(_, _)
ApplyStatements(tables, stmts) ==
  IF stmts = <<>> THEN tables
  ELSE ApplyStatements(ApplyStatement(tables, Head(stmts)), Tail(stmts))

Tables == [stages |-> concierge_session_stages, state |-> concierge_session_state]

\* SELECT stage ...; row[0] if row else None
SelectStage(sid) == Get(concierge_session_stages, sid, None)

\* SELECT value ...; row[0] if row else None
SelectState(sid, key) ==
  IF <<sid, key>> \in DOMAIN concierge_session_state
    THEN JsonLoads(concierge_session_state[<<sid, key>>])
    ELSE None

\* A transaction in progress: the statements that ran, those the call has
\* yet to execute, and whether another transaction committed a write for the
\* same session since this one began (`overlapped`, kept for the properties).
Transaction(op, sid, key, value) ==
  [pc |-> "transaction", op |-> op, sid |-> sid, key |-> key, value |-> value,
   stmts |-> <<>>, rest |-> Statements(op, sid, key, value),
   overlapped |-> FALSE]

\* The rows locked by the transactions other than `rid`
LockedByOthers(rid) ==
  UNION {UNION {reqs[r].stmts[i].rows : i \in DOMAIN reqs[r].stmts} :
           r \in {x \in RequestIds \ {rid} : reqs[x].pc = "transaction"}}

\* cur.execute of a statement that changes rows (mutant: the connection is in
\* autocommit mode, every statement is visible at once). The statement waits
\* while another transaction holds the lock of a row it changes; other
\* transactions see nothing of it before the commit.
Execute_Autocommit(rid, txn) ==
  LET stmt == [Head(txn.rest) EXCEPT !.rows = Touched(Tables, Head(txn.rest))]
      after == ApplyStatement(Tables, stmt)
  IN /\ stmt.rows \cap LockedByOthers(rid) = {}
     /\ concierge_session_stages' = after.stages
     /\ concierge_session_state' = after.state
     /\ reqs' = [reqs EXCEPT ![rid] = [txn EXCEPT !.rest = Tail(@)]]

Execute(rid, txn) ==
  LET stmt == [Head(txn.rest) EXCEPT !.rows = Touched(Tables, Head(txn.rest))]
  IN /\ stmt.rows \cap LockedByOthers(rid) = {}
     /\ reqs' = [reqs EXCEPT ![rid] =
                   [txn EXCEPT !.stmts = Append(@, stmt), !.rest = Tail(@)]]
     /\ TablesUnchanged

\* _get_conn: conn.commit() after the body
Commit(rid) ==
  LET after == ApplyStatements(Tables, reqs[rid].stmts)
  IN /\ concierge_session_stages' = after.stages
     /\ concierge_session_state' = after.state
     /\ reqs' = [r \in RequestIds |->
                   IF r = rid THEN Idle
                   ELSE IF reqs[r].pc = "transaction" /\ reqs[r].sid = reqs[rid].sid
                     THEN [reqs[r] EXCEPT !.overlapped = TRUE]
                     ELSE reqs[r]]

\* _get_conn: conn.rollback() and re-raise (mutant: what was executed is kept)
Rollback_KeepsWork(rid) == Commit(rid)

Rollback(rid) ==
  /\ TablesUnchanged
  /\ reqs' = [reqs EXCEPT ![rid] = Idle]

WriteOps == {"set_session_stage", "delete_session_stage", "set_state", "clear_session"}

\* A writing call up to its first statement. The arguments of execute are
\* evaluated first, so a value json cannot encode raises before any
\* statement runs; getconn or the statement may fail (`fail`).
PgBegin(rid, op, sid, key, value, fail) ==
  /\ backend = "postgres"
  /\ IsFreshId(rid)
  /\ IF op = "set_state" /\ JsonDumps(value) = TypeError
       THEN /\ event' = Raised(op, sid, key, value, TypeError, 0)
            /\ TablesUnchanged /\ UNCHANGED reqs
       ELSE IF fail
         THEN /\ event' = Raised(op, sid, key, value, OperationalError, 0)
              /\ TablesUnchanged /\ UNCHANGED reqs
         ELSE /\ Execute(rid, Transaction(op, sid, key, value))
              /\ event' = [BackendEvent("step", op, sid, key, value, None)
                             EXCEPT !.phase = "execute"]
  /\ DictsUnchanged /\ EnginesUnchanged

\* The second statement of clear_session
PgExecuteNext(rid, fail) ==
  LET txn == reqs[rid]
  IN /\ backend = "postgres"
     /\ txn.pc = "transaction"
     /\ txn.rest # <<>>
     /\ IF fail
          THEN /\ Rollback(rid)
               /\ event' = Raised(txn.op, txn.sid, txn.key, txn.value,
                                OperationalError, Len(txn.stmts))
          ELSE /\ Execute(rid, txn)
               /\ event' = [BackendEvent("step", txn.op, txn.sid, txn.key,
                                         txn.value, None)
                              EXCEPT !.phase = "execute"]
     /\ DictsUnchanged /\ EnginesUnchanged

\* Leaving the with block: commit, or rollback when the commit fails
PgCommit(rid, fail) ==
  LET txn == reqs[rid]
  IN /\ backend = "postgres"
     /\ txn.pc = "transaction"
     /\ txn.rest = <<>>
     /\ IF fail
          THEN /\ Rollback(rid)
               /\ event' = Raised(txn.op, txn.sid, txn.key, txn.value,
                                OperationalError, Len(txn.stmts))
          ELSE /\ Commit(rid)
               /\ event' = BackendEvent("response", txn.op, txn.sid, txn.key,
                                        txn.value, None)
     /\ DictsUnchanged /\ EnginesUnchanged

\* PostgresBackend.get_session_stage: one SELECT of the committed rows.
\* (A SELECT that fails raises and changes nothing; only the failures of
\* writing calls are followed.)
PgGetSessionStage(sid) ==
  /\ backend = "postgres"
  /\ event' = BackendEvent("response", "get_session_stage", sid, None, None,
                           SelectStage(sid))
  /\ DictsUnchanged /\ TablesUnchanged /\ EnginesUnchanged /\ UNCHANGED reqs

\* PostgresBackend.get_state
PgGetState(sid, key) ==
  /\ backend = "postgres"
  /\ event' = BackendEvent("response", "get_state", sid, key, None,
                           SelectState(sid, key))
  /\ DictsUnchanged /\ TablesUnchanged /\ EnginesUnchanged /\ UNCHANGED reqs

\* ---- a process (or several, for the database) calling one backend

\* get_default_backend: CONCIERGE_STATE_URL absent or a postgresql:// URL
BackendInit ==
  /\ engine = None
  /\ clients = {}
  /\ wf = EmptyWorkflow
  /\ session_stages = Empty
  /\ session_state = Empty
  /\ current_stage = Empty
  /\ state = Empty
  /\ history = Empty
  /\ local_state = Empty
  /\ reqs = [r \in RequestIds |-> Idle]
  /\ event = [kind |-> "init", phase |-> "init", op |-> None, sid |-> NoSession]
  /\ backend \in {"memory", "postgres"}
  /\ concierge_session_stages = Empty
  /\ concierge_session_state = Empty
  /\ NoWidgets
  /\ pods = Empty

MemNext ==
  \/ \E sid \in SessionIds : MemGetSessionStage(sid)
  \/ \E sid \in SessionIds, stage \in StageValues : MemSetSessionStage(sid, stage)
  \/ \E sid \in SessionIds : MemDeleteSessionStage(sid)
  \/ \E sid \in SessionIds, key \in StateKeys : MemGetState(sid, key)
  \/ \E sid \in SessionIds, value \in StateValues :
       MemSetState(sid, WrittenKey, value)
  \/ \E sid \in SessionIds : MemClearSession(sid)

PgNext ==
  \/ \E rid \in RequestIds, sid \in SessionIds, stage \in StageValues,
        fail \in BOOLEAN :
       PgBegin(rid, "set_session_stage", sid, None, stage, fail)
  \/ \E rid \in RequestIds, sid \in SessionIds, fail \in BOOLEAN,
        op \in {"delete_session_stage", "clear_session"} :
       PgBegin(rid, op, sid, None, None, fail)
  \/ \E rid \in RequestIds, sid \in SessionIds, value \in StateValues,
        fail \in BOOLEAN :
       PgBegin(rid, "set_state", sid, WrittenKey, value, fail)
  \/ \E rid \in RequestIds, fail \in BOOLEAN : PgExecuteNext(rid, fail)
  \/ \E rid \in RequestIds, fail \in BOOLEAN : PgCommit(rid, fail)
  \/ \E sid \in SessionIds : PgGetSessionStage(sid)
  \/ \E sid \in SessionIds : PgGetState(sid, WrittenKey)

BackendNext == MemNext \/ PgNext

BackendSpec == BackendInit /\ [][BackendNext]_vars

\* ---- both backends side by side: every call is made on an InMemoryBackend
\* ---- and on a PostgresBackend, one call after the other

\* A whole call of the database backend with nothing running beside it: the
\* statements run and commit in order
RECURSIVE RunStatements(_, _)
RunStatements(tables, stmts) ==
  IF stmts = <<>> THEN tables
  ELSE RunStatements(
         ApplyStatement(tables,
           [Head(stmts) EXCEPT !.rows = Touched(tables, Head(stmts))]),
         Tail(stmts))

Transact(op, sid, key, value) ==
  LET after == RunStatements(Tables, Statements(op, sid, key, value))
  IN /\ concierge_session_stages' = after.stages
     /\ concierge_session_state' = after.state

\* What the two calls gave back: `result` from the in-memory backend,
\* `pg_result` from the database backend
BothEvent(op, sid, key, value, result, pg_result) ==
  [kind |-> "response", phase |-> "both", op |-> op, sid |-> sid, key |-> key,
   value |-> value, result |-> result, pg_result |-> pg_result]

BothUnchanged ==
  UNCHANGED <<engine, clients, wf, current_stage, state, history, local_state,
              backend, reqs, handlers, widgets, called, pods>>

BothGetSessionStage(sid) ==
  /\ event' = BothEvent("get_session_stage", sid, None, None,
                        BackendGetSessionStage(sid), SelectStage(sid))
  /\ DictsUnchanged /\ TablesUnchanged /\ BothUnchanged

BothSetSessionStage(sid, stage) ==
  /\ BackendSetSessionStage(sid, stage)
  /\ Transact("set_session_stage", sid, None, stage)
  /\ event' = BothEvent("set_session_stage", sid, None, stage, None, None)
  /\ UNCHANGED session_state /\ BothUnchanged

BothDeleteSessionStage(sid) ==
  /\ BackendDeleteSessionStage(sid)
  /\ Transact("delete_session_stage", sid, None, None)
  /\ event' = BothEvent("delete_session_stage", sid, None, None, None, None)
  /\ UNCHANGED session_state /\ BothUnchanged

BothGetState(sid, key) ==
  /\ event' = BothEvent("get_state", sid, key, None,
                        BackendGetState(sid, key), SelectState(sid, key))
  /\ DictsUnchanged /\ TablesUnchanged /\ BothUnchanged

\* set_state: the in-memory backend stores the object; the database backend
\* encodes it first and raises when json cannot
BothSetState(sid, key, value) ==
  /\ BackendSetState(sid, [k \in {key} |-> value])
  /\ IF JsonDumps(value) = TypeError
       THEN /\ TablesUnchanged
            /\ event' = BothEvent("set_state", sid, key, value, None, TypeError)
       ELSE /\ Transact("set_state", sid, key, value)
            /\ event' = BothEvent("set_state", sid, key, value, None, None)
  /\ UNCHANGED session_stages /\ BothUnchanged

BothClearSession(sid) ==
  /\ BackendClearSession(sid)
  /\ Transact("clear_session", sid, None, None)
  /\ event' = BothEvent("clear_session", sid, None, None, None, None)
  /\ BothUnchanged

\* Two empty stores
BothInit ==
  /\ engine = None
  /\ clients = {}
  /\ wf = EmptyWorkflow
  /\ session_stages = Empty
  /\ session_state = Empty
  /\ current_stage = Empty
  /\ state = Empty
  /\ history = Empty
  /\ local_state = Empty
  /\ reqs = [r \in RequestIds |-> Idle]
  /\ event = [kind |-> "init", phase |-> "init", op |-> None, sid |-> NoSession]
  /\ backend = "both"
  /\ concierge_session_stages = Empty
  /\ concierge_session_state = Empty
  /\ NoWidgets
  /\ pods = Empty

BothNext ==
  \/ \E sid \in SessionIds : BothGetSessionStage(sid)
  \/ \E sid \in SessionIds, stage \in StageValues : BothSetSessionStage(sid, stage)
  \/ \E sid \in SessionIds : BothDeleteSessionStage(sid)
  \/ \E sid \in SessionIds, key \in StateKeys : BothGetState(sid, key)
  \/ \E sid \in SessionIds, value \in StateValues \cup {PyList} :
       BothSetState(sid, WrittenKey, value)
  \/ \E sid \in SessionIds : BothClearSession(sid)

BothSpec == BothInit /\ [][BothNext]_vars

\* ------------------------------------------- the resource / widget bridge

\* A server with two widgets, declared with @app.widget: a chart whose HTML
\* is made by html_fn from what the tool show_chart returned, and an about
\* page with inline HTML. A third uri belongs to no widget.
ChartUri == "ui://widget/chart"
AboutUri == "ui://widget/about"
OtherUri == "file://notes.txt"
WidgetUris == {ChartUri, AboutUri}
Uris == WidgetUris \cup {OtherUri}

\* A Widget object that has no _last_args attribute
Unset == "<unset>"

\* What the decorated tool functions return (the Python repr of a dict)
ToolResults == {"{'symbol': 'AAPL'}", "{'symbol': 'MSFT'}"}
\* The decorated tool function raising
ToolFailure == "<raise>"

\* self._widgets after the decorators ran, by uri
WidgetRegistry ==
  [u \in WidgetUris |->
     IF u = ChartUri
     THEN [name |-> "show_chart", mode |-> "DYNAMIC", html |-> None,
           html_fn |-> "html_fn", invoking |-> "Loading...", invoked |-> "Done",
           last_args |-> Unset]
     ELSE [name |-> "about", mode |-> "HTML", html |-> "<p>about</p>",
           html_fn |-> None, invoking |-> "Loading...", invoked |-> "Done",
           last_args |-> Unset]]

\* The outcome of a handler: what it returned, or the exception it raised
Returns(result) == [kind |-> "response", result |-> result]
Raises(error, message) ==
  [kind |-> "exception", result |-> [error |-> error, message |-> message]]

\* html_fn(args): the HTML depends on the arguments it is given
HtmlFn(args) == [html_fn |-> args]

GetWidgetMeta(uri) ==
  [outputTemplate |-> uri, invoking |-> widgets[uri].invoking,
   invoked |-> widgets[uri].invoked]

\* _get_widget_html for the two modes in use
GetWidgetHtml(uri) ==
  LET widget == widgets[uri]
  IN IF widget.mode = "HTML" THEN Returns([html |-> widget.html])
     ELSE IF widget.last_args \in {Unset, None}
          THEN Raises("ValueError", "call the tool first")
          ELSE Returns(HtmlFn(widget.last_args))

\* _read_resource_with_meta; `under` is what the handler that was registered
\* before answers for a uri that is no widget
ReadResourceWithMeta(uri, under) ==
  IF uri \in DOMAIN widgets
  THEN LET text == GetWidgetHtml(uri)
       IN IF text.kind = "exception" THEN text
          ELSE Returns([uri |-> uri, text |-> text.result,
                        meta |-> GetWidgetMeta(uri)])
  ELSE under

\* What the handler registered before answers: the content, or an error
Underlying ==
  {Returns([uri |-> OtherUri, text |-> [html |-> "notes"],
            meta |-> [outputTemplate |-> None, invoking |-> None,
                      invoked |-> None]]),
   Raises("ValueError", "Unknown resource")}

\* The tool `wrapped` of a widget, as the server's call_tool handler runs it:
\* fn is what the decorated function does, and a raising tool reaches the
\* caller as an error result (caught) or as the exception.
WidgetToolResult(uri, result) ==
  [content |-> widgets[uri].invoked, structuredContent |-> result,
   meta |-> [invoking |-> widgets[uri].invoking,
             invoked |-> widgets[uri].invoked],
   isError |-> FALSE]

CallToolHandler(uri, fn, caught) ==
  IF fn = ToolFailure
  THEN IF caught
       THEN Returns([content |-> "Error executing tool", structuredContent |-> None,
                     meta |-> [invoking |-> None, invoked |-> None],
                     isError |-> TRUE])
       ELSE Raises("ToolError", "Error executing tool")
  ELSE Returns(WidgetToolResult(uri, fn))

\* w._last_args = result, for a widget with an html_fn whose tool returned
LastArgsAfter(uri, fn) ==
  IF fn # ToolFailure /\ widgets[uri].html_fn # None
  THEN [widgets EXCEPT ![uri].last_args = fn]
  ELSE widgets

\* One metrics.track(...) call
Track(type, resource_name, outcome) ==
  [type |-> type, resource_name |-> resource_name,
   is_error |-> outcome.kind = "exception",
   error_message |-> IF outcome.kind = "exception" THEN outcome.result.message
                     ELSE None]

\* wrapped_call / wrapped_read of _setup_metrics around the outcome of the
\* original handler: the outcome passes through and the finally block tracks
Wrapped_TracksOnSuccess(type, resource_name, outcome) ==
  [outcome |-> outcome,
   tracked |-> IF outcome.kind = "exception" THEN <<>>
               ELSE <<Track(type, resource_name, outcome)>>]

Wrapped(type, resource_name, outcome) ==
  [outcome |-> outcome, tracked |-> <<Track(type, resource_name, outcome)>>]

\* The handler found in request_handlers for the request type
Handle(op, type, resource_name, outcome) ==
  IF handlers[op] = "original" THEN [outcome |-> outcome, tracked |-> <<>>]
  ELSE Wrapped(type, resource_name, outcome)

BridgeEvent(op, sid, name, handled) ==
  [kind |-> handled.outcome.kind, phase |-> "bridge", op |-> op, sid |-> sid,
   name |-> name, result |-> handled.outcome.result, tracked |-> handled.tracked]

BridgeUnchanged ==
  UNCHANGED <<engine, clients, wf, session_stages, session_state, current_stage,
              state, history, local_state, reqs, backend,
              concierge_session_stages, concierge_session_state, handlers,
              pods>>

\* tools/call of the tool of a widget
CallWidgetTool(sid, uri, fn, caught) ==
  /\ engine = "bridge"
  /\ uri \in DOMAIN widgets
  /\ event' = BridgeEvent("call_tool", sid, widgets[uri].name,
                          Handle("call_tool", "mcp:tools/call", widgets[uri].name,
                                 CallToolHandler(uri, fn, caught)))
                 @@ [uri |-> uri, fn |-> fn, caught |-> caught]
  /\ widgets' = LastArgsAfter(uri, fn)
  /\ called' = IF fn # ToolFailure THEN [called EXCEPT ![sid][uri] = fn]
               ELSE called
  /\ BridgeUnchanged

\* resources/read
ReadResource(sid, uri, under) ==
  /\ engine = "bridge"
  /\ event' = BridgeEvent("read_resource", sid, uri,
                          Handle("read_resource", "mcp:resources/read", uri,
                                 ReadResourceWithMeta(uri, under)))
                 @@ [under |-> under]
  /\ UNCHANGED <<widgets, called>>
  /\ BridgeUnchanged

\* _finalize done: the widgets are registered, and _setup_metrics has wrapped
\* the two handlers when telemetry is enabled
BridgeInit ==
  /\ engine = "bridge"
  /\ clients = SessionIds
  /\ wf = EmptyWorkflow
  /\ session_stages = Empty
  /\ session_state = Empty
  /\ current_stage = Empty
  /\ state = Empty
  /\ history = Empty
  /\ local_state = Empty
  /\ reqs = [r \in RequestIds |-> Idle]
  /\ event = [kind |-> "init", phase |-> "init", op |-> None, sid |-> NoSession]
  /\ backend = "memory"
  /\ concierge_session_stages = Empty
  /\ concierge_session_state = Empty
  /\ handlers \in {[call_tool |-> "original", read_resource |-> "original"],
                   [call_tool |-> "wrapped_call", read_resource |-> "wrapped_read"]}
  /\ widgets = WidgetRegistry
  /\ called = [s \in SessionIds |-> [u \in WidgetUris |-> Unset]]
  /\ pods = Empty

BridgeNext ==
  \/ \E sid \in SessionIds, uri \in WidgetUris, fn \in ToolResults \cup {ToolFailure},
        caught \in BOOLEAN : CallWidgetTool(sid, uri, fn, caught)
  \/ \E sid \in SessionIds, uri \in Uris, under \in Underlying :
       ReadResource(sid, uri, under)

BridgeSpec == BridgeInit /\ [][BridgeNext]_vars

\* ------------------------- several server processes on one database (pods)

\* The processes of a multi-pod deployment: each runs the Concierge of
\* src/__init__.py with a PostgresBackend on the same database.
Pods == {"pod-1", "pod-2"}

\* _get_session_stage with the PostgresBackend
PodGetSessionStage(sid) ==
  IF sid # NoSession /\ SelectStage(sid) # None THEN SelectStage(sid)
  ELSE DefaultStage

\* A handler between two calls of the backend. Inside one process nothing
\* else runs between them (no await); the other processes do.
PodHandler(op, sid, current, target) ==
  [pc |-> "checked", op |-> op, sid |-> sid, current |-> current,
   target |-> target]

PodEvent(kind, op, pod, sid, target, result) ==
  [kind |-> kind, phase |-> "pod", op |-> op, pod |-> pod, sid |-> sid,
   target |-> target, result |-> result]

PodsUnchanged ==
  UNCHANGED <<engine, clients, wf, session_stages, session_state, current_stage,
              state, history, local_state, reqs, backend, handlers, widgets,
              called>>

\* _handle_next_stage up to the check: the stage is read in a transaction of
\* its own, and a target that is not allowed is answered at once
PodProceedCheck(pod, sid, target_stage) ==
  LET current == PodGetSessionStage(sid)
      allowed == Transitions(current)
  IN /\ engine = "pods"
     /\ pods[pod] = Idle
     /\ IF target_stage \notin Range(allowed)
          THEN /\ event' = PodEvent("response", PROCEED, pod, sid, target_stage,
                                    [error |-> "Cannot transition",
                                     allowed_transitions |-> allowed,
                                     current_stage |-> current])
               /\ UNCHANGED pods
          ELSE /\ event' = PodEvent("step", PROCEED, pod, sid, target_stage, None)
               /\ pods' = [pods EXCEPT ![pod] =
                             PodHandler(PROCEED, sid, current, target_stage)]
     /\ TablesUnchanged /\ PodsUnchanged

\* _handle_next_stage from _set_session_stage on: the upsert in a second
\* transaction, the notification, the result
PodProceedSet(pod) ==
  LET h == pods[pod]
  IN /\ engine = "pods"
     /\ h.pc = "checked" /\ h.op = PROCEED
     /\ IF h.sid # NoSession
          THEN Transact("set_session_stage", h.sid, None, h.target)
          ELSE TablesUnchanged
     /\ event' = PodEvent("response", PROCEED, pod, h.sid, h.target,
                          [status |-> "transitioned", from_stage |-> h.current,
                           to_stage |-> h.target])
     /\ pods' = [pods EXCEPT ![pod] = Idle]
     /\ PodsUnchanged

\* _handle_terminate_session up to the read of the stage
PodTerminateRead(pod, sid) ==
  /\ engine = "pods"
  /\ pods[pod] = Idle
  /\ event' = PodEvent("step", TERMINATE, pod, sid, None, None)
  /\ pods' = [pods EXCEPT ![pod] =
                PodHandler(TERMINATE, sid, PodGetSessionStage(sid), None)]
  /\ TablesUnchanged /\ PodsUnchanged

\* _handle_terminate_session from clear_session on
PodTerminateClear(pod) ==
  LET h == pods[pod]
  IN /\ engine = "pods"
     /\ h.pc = "checked" /\ h.op = TERMINATE
     /\ IF h.sid # NoSession
          THEN Transact("clear_session", h.sid, None, None)
          ELSE TablesUnchanged
     /\ event' = PodEvent("response", TERMINATE, pod, h.sid, None,
                          [status |-> "terminated", previous_stage |-> h.current])
     /\ pods' = [pods EXCEPT ![pod] = Idle]
     /\ PodsUnchanged

PodsInit ==
  /\ engine = "pods"
  /\ clients = SessionIds
  /\ wf = StockWorkflow
  /\ session_stages = Empty
  /\ session_state = Empty
  /\ current_stage = Empty
  /\ state = Empty
  /\ history = Empty
  /\ local_state = Empty
  /\ reqs = [r \in RequestIds |-> Idle]
  /\ event = [kind |-> "init", phase |-> "init", op |-> None, sid |-> NoSession]
  /\ backend = "postgres"
  /\ concierge_session_stages = Empty
  /\ concierge_session_state = Empty
  /\ NoWidgets
  /\ pods = [p \in Pods |-> Idle]

PodsNext ==
  \/ \E pod \in Pods, sid \in SessionIds \cup {NoSession},
        target_stage \in TargetNames(wf) : PodProceedCheck(pod, sid, target_stage)
  \/ \E pod \in Pods : PodProceedSet(pod)
  \/ \E pod \in Pods, sid \in SessionIds \cup {NoSession} : PodTerminateRead(pod, sid)
  \/ \E pod \in Pods : PodTerminateClear(pod)

PodsSpec == PodsInit /\ [][PodsNext]_vars

\* ------------------------------------------------------------- properties

\* The workflow definition as the specification reads it (the claims are
\* stated against these, the handlers above against the code's lookups).
StageOf(sid) ==
  IF sid \in DOMAIN session_stages THEN session_stages[sid] ELSE wf.order[1]
ToolsOf(q) == IF q \in DOMAIN wf.tools THEN Range(wf.tools[q]) ELSE {}
AllowedOf(q) == IF q \in DOMAIN wf.transitions THEN wf.transitions[q] ELSE <<>>
PrereqOf(q) == IF q \in DOMAIN wf.prerequisites THEN wf.prerequisites[q] ELSE {}
KeysOf(sid) ==
  IF sid \in DOMAIN session_state THEN DOMAIN session_state[sid] ELSE {}

IsResponse(op) == event.kind = "response" /\ event.op = op

\* The dict a proceed_to_next_stage handler returns on success
Transitioned(result) ==
  "status" \in DOMAIN result /\ result.status = "transitioned"

\* C1: every list_tools response holds exactly the tools of the session's
\* current stage, terminate_session, and proceed_to_next_stage iff the stage
\* has an allowed transition; the enum of target_stage is the stage's allowed
\* transitions.
C1_ListToolsExact ==
  IsResponse("list_tools") =>
    LET q == StageOf(event.sid)
        expected == ToolsOf(q) \cup {TERMINATE}
                    \cup (IF AllowedOf(q) # <<>> THEN {PROCEED} ELSE {})
    IN /\ Range(event.result.tools) = expected
       /\ Len(event.result.tools) = Cardinality(expected)
       /\ event.result.enum = AllowedOf(q)

C1_Witness ==
  /\ IsResponse("list_tools")
  /\ event.sid \in DOMAIN session_stages
  /\ session_stages[event.sid] = "transact"
  /\ PROCEED \in Range(event.result.tools)

\* C2: a tool call succeeds only for a tool of the session's current stage
\* (the two synthetic tools apart); a tool of another stage is not run.
C2_CallOnlyCurrentStage ==
  /\ (IsResponse("call_tool") /\ event.sid \in SessionIds)
       => IF event.tool \in ToolsOf(StageOf(event.sid))
            THEN event.result.status \in {"ok", "ToolNotFound"}
            ELSE event.result = [status |-> "ToolNotFound", ran |-> None]
  /\ (event.kind = "step" /\ event.op = "tool")
       => reqs[event.rid].tool \in ToolsOf(current_stage[event.sid])
  /\ (IsResponse("tool") /\ event.tool \notin ToolsOf(current_stage[event.sid]))
       => event.phase = "start" /\ event.result.type = "error"

\* C3: a transition happens only when every prerequisite key of the target
\* stage is present in the session's state, on the proceed_to_next_stage path
\* and on the Orchestrator path.
C3_PrerequisitesPresent ==
  /\ (event.kind = "step" /\ event.op = PROCEED /\ event.sid \in SessionIds)
       => PrereqOf(event.target) \subseteq KeysOf(event.sid)
  /\ (IsResponse("transition") /\ event.result.type = "transitioned")
       => PrereqOf(event.result.to) \subseteq DOMAIN state[event.sid]

\* A step in which a proceed_to_next_stage handler (sdk) or a transition
\* action (core) was started.
ProceedStarted == event'.op = PROCEED /\ event'.phase = "start"
TransitionStarted == event'.op = "transition" /\ event'.phase = "start"

\* C4: a transition request moves the cursor only to a target in the allowed
\* transitions of the session's current stage; any other target changes
\* nothing and is answered with an error listing that stage's allowed
\* transitions.
C4_AdjacencyEnforced ==
  /\ [][ProceedStarted =>
          LET q == StageOf(event'.sid)
          IN IF event'.target \in Range(AllowedOf(q))
               THEN /\ event'.kind = "step"
                    /\ event'.sid \in SessionIds
                         => session_stages'[event'.sid] = event'.target
                    /\ reqs'[event'.rid].result =
                         [status |-> "transitioned", from_stage |-> q,
                          to_stage |-> event'.target]
               ELSE /\ event'.kind = "response"
                    /\ "error" \in DOMAIN event'.result
                    /\ event'.result.allowed_transitions = AllowedOf(q)
                    /\ UNCHANGED <<session_stages, reqs>>]_vars
  /\ [][TransitionStarted =>
          LET q == current_stage[event'.sid]
          IN IF event'.target \in Range(AllowedOf(q))
               THEN event'.kind = "response" =>
                      event'.result.type \in {"transitioned", "elicit_required"}
               ELSE /\ event'.kind = "response"
                    /\ event'.result.type = "error"
                    /\ event'.result.allowed = AllowedOf(q)
                    /\ UNCHANGED <<current_stage, history>>]_vars
  /\ [][\A s \in SessionIds :
          /\ (event'.op # TERMINATE /\ StageOf(s)' # StageOf(s))
               => StageOf(s)' \in Range(AllowedOf(StageOf(s)))
          /\ current_stage'[s] # current_stage[s]
               => current_stage'[s] \in Range(AllowedOf(current_stage[s]))]_vars

C4_Witness ==
  /\ IsResponse(PROCEED)
  /\ "error" \in DOMAIN event.result
  /\ event.sid \in DOMAIN session_stages
  /\ event.result.allowed_transitions # <<>>

\* C5: the current stage of every session is a declared stage.
C5_CursorDeclared ==
  /\ \A s \in DOMAIN session_stages : session_stages[s] \in DOMAIN wf.tools
  /\ \A s \in SessionIds : current_stage[s] \in DOMAIN wf.tools

\* C6: a call_tool request (sdk) or an action (core) of a session starts only
\* when no other one of the same session is in flight.
C6_OneInFlight ==
  (event.phase = "start" /\ event.sid \in SessionIds
     /\ event.op # "list_tools") =>
    \A r \in RequestIds :
      (reqs[r].pc # "idle" /\ reqs[r].sid = event.sid) =>
        (event.kind = "step" /\ event.rid = r)

\* C7: in the staged-tool filter a step of one caller changes neither the
\* stage cursor of another session nor what list_tools returns to it.
C7_SessionsIndependent ==
  [][\A a \in SessionIds :
       (engine = "sdk" /\ event'.sid # a) =>
         /\ StageOf(a)' = StageOf(a)
         /\ FilteredListTools(a)' = FilteredListTools(a)]_vars

C7_Witness ==
  /\ engine = "sdk"
  /\ event.kind = "step" /\ event.op = PROCEED /\ event.sid = "B"
  /\ StageOf("B") = "portfolio"
  /\ StageOf("A") = "transact"

\* C8: a step of one Orchestrator session leaves the state that the tools of
\* the other session read and write as it was.
C8_OrchestratorStateIsolated ==
  [][\A a \in SessionIds :
       (engine = "core" /\ event'.sid # a) =>
         local_state'[current_stage'[a]] = local_state[current_stage[a]]]_vars

C10_NotifiedBeforeList ==
  (IsResponse("list_tools") /\ event.sid \in SessionIds) =>
    \A r \in RequestIds :
      ~(reqs[r].pc = "notify" /\ reqs[r].op = PROCEED
        /\ reqs[r].sid = event.sid)

\* The tool set list_tools shows for the initial stage
InitialToolSet ==
  ToolsOf(wf.order[1]) \cup {TERMINATE}
    \cup (IF AllowedOf(wf.order[1]) # <<>> THEN {PROCEED} ELSE {})

\* A step in which a terminate_session handler of a session was started
TerminateStarted ==
  event'.op = TERMINATE /\ event'.phase = "start" /\ event'.sid \in SessionIds

\* C11: terminate_session in any stage removes the session's stage and state
\* from the backend, answers terminated with the stage the session was in
\* just before the call, sends tool_list_changed before answering, and the
\* list_tools that follows returns the initial stage's tool set.
C11_TerminateResets ==
  /\ [][\A s \in SessionIds :
          (TerminateStarted /\ event'.sid = s) =>
            /\ s \notin DOMAIN session_stages'
            /\ s \notin DOMAIN session_state'
            /\ BackendGetSessionStage(s)' = None
            /\ \A k \in {"symbol", "quantity"} : BackendGetState(s, k)' = None
            /\ reqs'[event'.rid].result =
                 [status |-> "terminated", previous_stage |-> StageOf(s)]
            /\ Range(FilteredListTools(s).tools)' = InitialToolSet]_vars
  /\ [][(event'.kind \in {"notification", "response"}
          /\ event'.phase = "resume")
          => UNCHANGED <<session_stages, session_state>>]_vars
  /\ [](IsResponse(TERMINATE) => event.notified)
  /\ [][(event.op = TERMINATE /\ event.sid \in SessionIds
          /\ event.sid \notin DOMAIN session_stages
          /\ event'.kind = "response" /\ event'.op = "list_tools"
          /\ event'.sid = event.sid)
          => Range(event'.result.tools) = InitialToolSet]_vars

C11_Witness ==
  /\ IsResponse(TERMINATE)
  /\ event.sid \in SessionIds
  /\ event.result.previous_stage = "transact"
  /\ event.notified
  /\ event.sid \notin DOMAIN session_stages

\* C12: a transition request that is rejected changes neither the cursor nor
\* the history nor any stored state; a target that is allowed but whose
\* prerequisites are missing is answered elicit_required with the missing
\* keys.
C12_RejectionChangesNothing ==
  /\ [][(TransitionStarted
          /\ ~(event'.kind = "response"
               /\ event'.result.type = "transitioned"))
          => UNCHANGED <<current_stage, history, state, local_state>>]_vars
  /\ [][TransitionStarted =>
          LET q == current_stage[event'.sid]
              absent == PrereqOf(event'.target) \ DOMAIN state[event'.sid]
          IN /\ (event'.target \in Range(AllowedOf(q))
                  /\ event'.target \in DOMAIN wf.tools /\ absent # {})
                  => /\ event'.kind = "response"
                     /\ event'.result =
                          [type |-> "elicit_required", missing |-> absent]
             /\ (event'.kind = "response"
                  /\ event'.result.type = "elicit_required")
                  => event'.result.missing = absent /\ absent # {}]_vars
  /\ [][(ProceedStarted /\ event'.kind = "response")
          => /\ "error" \in DOMAIN event'.result
             /\ UNCHANGED <<session_stages, session_state, reqs>>]_vars

C12_Witness ==
  /\ IsResponse("transition")
  /\ event.result.type = "elicit_required"
  /\ event.result.missing = {"symbol", "quantity"}
  /\ history[event.sid] # <<>>
  /\ local_state[current_stage[event.sid]] # Empty

\* The keys the last action of an Orchestrator session wrote, when that
\* action was a tool of the stage the session is still in
LastToolWrites(sid) ==
  LET h == history[sid]
  IN IF h # <<>> /\ h[Len(h)].action = "tool"
       THEN DOMAIN ToolWrites(h[Len(h)].tool, h[Len(h)].args)
       ELSE {}

\* C13: once a tool of the current stage has written every prerequisite key
\* of an allowed target, a transition request to that target is answered
\* transitioned, from the current stage to the target.
C13_WritesSatisfyPrerequisites ==
  /\ [][TransitionStarted =>
          LET q == current_stage[event'.sid]
          IN (event'.target \in Range(AllowedOf(q))
              /\ event'.target \in DOMAIN wf.tools
              /\ PrereqOf(event'.target) \subseteq LastToolWrites(event'.sid))
              => /\ event'.kind = "response"
                 /\ event'.result = [type |-> "transitioned", from |-> q,
                                      to |-> event'.target]]_vars
  /\ [][(ProceedStarted /\ event'.sid \in SessionIds) =>
          LET q == StageOf(event'.sid)
          IN (event'.target \in Range(AllowedOf(q))
              /\ PrereqOf(event'.target) \subseteq KeysOf(event'.sid))
              => /\ event'.kind = "step"
                 /\ reqs'[event'.rid].result =
                      [status |-> "transitioned", from_stage |-> q,
                       to_stage |-> event'.target]]_vars

\* The tool set list_tools shows for stage q
ToolSetOf(q) ==
  ToolsOf(q) \cup {TERMINATE}
    \cup (IF AllowedOf(q) # <<>> THEN {PROCEED} ELSE {})

\* C14: when proceed_to_next_stage has answered transitioned with to_stage t
\* and the same caller's list_tools is the very next request handled, it
\* returns the tool set of t; callers without a session id included.
C14_ListAfterProceed ==
  [][(IsResponse(PROCEED) /\ Transitioned(event.result)
      /\ event'.kind = "response" /\ event'.op = "list_tools"
      /\ event'.sid = event.sid)
      => Range(event'.result.tools) = ToolSetOf(event.result.to_stage)]_vars

\* The transfer policy a workflow definition declares for a transition, as
\* the specification describes it (the Workflow and Stage objects of the
\* code hold no such declaration): the stock workflow carries everything
\* from browse to portfolio and the cart keys from browse to transact, the
\* checkout workflow carries the symbol into checkout, every other
\* transition is declared ISOLATE.
TransitionPolicy(from_stage, to_stage) ==
  IF wf = StockWorkflow /\ from_stage = "browse" /\ to_stage = "portfolio"
    THEN [kind |-> "TRANSFER_ALL", keys |-> {}]
  ELSE IF wf = StockWorkflow /\ from_stage = "browse" /\ to_stage = "transact"
    THEN [kind |-> "TRANSFER", keys |-> {"symbol", "quantity"}]
  ELSE IF wf = CheckoutWorkflow /\ to_stage = "checkout"
    THEN [kind |-> "TRANSFER", keys |-> {"symbol"}]
  ELSE [kind |-> "ISOLATE", keys |-> {}]

\* The projection of an outgoing state under a policy
Project(policy, outgoing) ==
  IF policy.kind = "TRANSFER_ALL" THEN outgoing
  ELSE IF policy.kind = "TRANSFER"
    THEN [k \in DOMAIN outgoing \cap policy.keys |-> outgoing[k]]
  ELSE Empty

\* C15: on a valid transition the local state of the stage entered is the
\* projection, under the policy declared for the transition, of the state
\* the tools of the stage left had written.
C15_PolicyProjection ==
  [][(TransitionStarted /\ event'.kind = "response"
      /\ event'.result.type = "transitioned")
      => local_state'[event'.result.to] =
           Project(TransitionPolicy(event'.result.from, event'.result.to),
                   local_state[event'.result.from])]_vars

\* The state a tool call of session sid would be handed now: the session's
\* entry in the backend (sdk), the local state of the stage the cursor is on
\* (core)
Readable(sid) ==
  IF engine = "sdk"
    THEN Get(session_state, sid, Empty)
    ELSE Get(local_state, current_stage[sid], Empty)

\* The keys the completed tool calls of an Orchestrator session have written
WrittenBy(sid) ==
  UNION {DOMAIN ToolWrites(history[sid][i].tool, history[sid][i].args) :
           i \in {j \in DOMAIN history[sid] : history[sid][j].action = "tool"}}

\* C16: what a tool of a session has written stays readable, with its value,
\* by the session's later tool calls across every step of that session other
\* than terminate_session, stage changes included; after terminate_session
\* nothing of it is readable.
C16_WritesStayReadable ==
  [][\A s \in SessionIds :
       event'.sid = s =>
         IF event'.op = TERMINATE /\ event'.phase = "start"
           THEN Readable(s)' = Empty
           ELSE \A k \in DOMAIN Readable(s) :
                  (engine = "core" => k \in WrittenBy(s))
                    => /\ k \in DOMAIN Readable(s)'
                       /\ Readable(s)'[k] = Readable(s)[k]]_vars

\* A step in which a tool action was answered without its handler being
\* suspended, for a tool of the session's current stage: the handler raised
ToolRaised ==
  /\ event'.op = "tool" /\ event'.phase = "start" /\ event'.kind # "step"
  /\ event'.tool \in ToolsOf(current_stage[event'.sid])

\* C17: a tool handler that raises is answered with a tool_error naming the
\* tool and the error; the cursor, the history and everything else of the
\* session stay as they were, and the session's next action is handled as any
\* other.
C17_ToolErrorContained ==
  /\ [][ToolRaised =>
          /\ event'.kind = "response"
          /\ event'.result = [type |-> "tool_error", tool |-> event'.tool,
                               error |-> "TypeError"]
          /\ UNCHANGED <<current_stage, history, state, local_state, reqs>>]_vars
  /\ [][(IsResponse("tool") /\ event.result.type = "tool_error"
          /\ event'.sid = event.sid /\ event'.phase = "start")
          => event'.kind \in {"step", "response"}
               \/ (event'.op = "transition"
                    /\ event'.target \notin DOMAIN wf.tools)]_vars

C17_Witness ==
  /\ IsResponse("tool")
  /\ event.result.type = "tool_error"
  /\ event.tool = "add_to_cart"
  /\ history[event.sid] # <<>>
  /\ current_stage[event.sid] = "browse"

\* h2 is h1, or h1 with one record appended
GrowsByAtMostOne(h1, h2) ==
  \/ h2 = h1
  \/ Len(h2) = Len(h1) + 1 /\ SubSeq(h2, 1, Len(h1)) = h1

\* C18: a tool action answered tool_result appends exactly one record (tool,
\* args, result) to the session's history; one answered with an error or a
\* tool_error appends nothing; no step removes or changes a record.
C18_HistoryRecords ==
  /\ [][\A s \in SessionIds : GrowsByAtMostOne(history[s], history'[s])]_vars
  /\ [][(event'.op = "tool" /\ event'.kind = "response") =>
          IF event'.result.type = "tool_result"
            THEN history' = [history EXCEPT ![event'.sid] =
                   Append(@, [action |-> "tool", tool |-> event'.tool,
                              args |-> reqs[event'.rid].args,
                              result |-> event'.result.result])]
            ELSE /\ event'.result.type \in {"error", "tool_error"}
                 /\ UNCHANGED history]_vars
  /\ [][(event'.op = "tool" /\ event'.kind = "step")
          => UNCHANGED history]_vars

C18_Witness ==
  /\ IsResponse("tool")
  /\ event.result.type = "tool_result"
  /\ Len(history[event.sid]) = 2
  /\ history[event.sid][1].action = "tool"
  /\ history[event.sid][2].tool = event.tool

Terminal(q) == AllowedOf(q) = <<>>

\* C20: a session on a stage without allowed transitions stays there under
\* every step but its own terminate_session; list_tools does not offer
\* proceed_to_next_stage, a transition request is rejected whatever its
\* target, and a tool of the stage is still run.
C20_TerminalStays ==
  /\ [][\A s \in SessionIds :
          /\ (Terminal(StageOf(s))
               /\ ~(event'.op = TERMINATE /\ event'.phase = "start"
                    /\ event'.sid = s))
               => StageOf(s)' = StageOf(s)
          /\ Terminal(current_stage[s])
               => current_stage'[s] = current_stage[s]]_vars
  /\ [](IsResponse("list_tools") =>
          (PROCEED \in Range(event.result.tools)
             <=> ~Terminal(StageOf(event.sid))))
  /\ [][(ProceedStarted /\ Terminal(StageOf(event'.sid)))
          => /\ event'.kind = "response"
             /\ "error" \in DOMAIN event'.result
             /\ event'.result.allowed_transitions = <<>>]_vars
  /\ [][(TransitionStarted /\ Terminal(current_stage[event'.sid]))
          => /\ event'.kind = "response"
             /\ event'.result.type = "error"]_vars
  /\ [](( IsResponse("call_tool") /\ Terminal(StageOf(event.sid))
           /\ event.tool \in ToolsOf(StageOf(event.sid)))
          => event.result = [status |-> "ok", ran |-> event.tool])
  /\ [][(event'.op = "tool" /\ event'.phase = "start"
          /\ Terminal(current_stage[event'.sid]))
          => IF event'.kind = "step"
               THEN reqs'[event'.rid].tool
                      \in ToolsOf(current_stage[event'.sid])
               ELSE event'.tool \in ToolsOf(current_stage[event'.sid])
                      => event'.result.type = "tool_error"]_vars

C20_Witness ==
  /\ IsResponse("call_tool")
  /\ event.sid \in DOMAIN session_stages
  /\ session_stages[event.sid] = "checkout"
  /\ event.tool = "add_to_cart"
  /\ event.result.status = "ok"

\* C21: decorating a workflow class whose transitions name a stage that no
\* stage class declares fails, so that every Workflow the decorator returns
\* has, for each of its stages, only declared stages as transition targets.
C21_UndeclaredTargetFails ==
  event.op = "workflow" =>
    /\ (\E q \in DOMAIN event.decl.transitions :
          ~(Range(event.decl.transitions[q]) \subseteq Range(event.decl.stages)))
         => event.kind = "exception"
    /\ event.kind = "response" =>
         \A q \in DOMAIN wf.transitions :
           Range(wf.transitions[q]) \subseteq Range(wf.order)

\* What a read of the backend in use returns at this moment
StoredStage(sid) ==
  IF backend = "memory" THEN BackendGetSessionStage(sid) ELSE SelectStage(sid)
StoredState(sid, key) ==
  IF backend = "memory" THEN BackendGetState(sid, key) ELSE SelectState(sid, key)

\* A call of `op` for session `sid` has returned / has taken a step
Returned(e, op, sid) == e.kind = "response" /\ e.op = op /\ e.sid = sid
StageWriters == {"set_session_stage", "delete_session_stage", "clear_session"}
StateWriters == {"set_state", "clear_session"}

\* C22: once set_session_stage(s, q) has returned, get_session_stage(s)
\* returns q, and keeps doing so across every step that is not a
\* set_session_stage, delete_session_stage or clear_session of s; a second
\* set replaces the first (in both backends).
C22_StageRoundTrip ==
  /\ [][\A s \in SessionIds :
          /\ Returned(event', "set_session_stage", s)
               => StoredStage(s)' = event'.value
          /\ ~(event'.op \in StageWriters /\ event'.sid = s)
               => StoredStage(s)' = StoredStage(s)]_vars
  /\ [](\A s \in SessionIds :
          Returned(event, "get_session_stage", s) => event.result = StoredStage(s))

\* get_session_stage returns a stage that a set has replaced an earlier one with
C22_Witness ==
  /\ backend = "postgres"
  /\ Returned(event, "get_session_stage", "A")
  /\ event.result = "checkout"
  /\ SelectStage("B") = "browse"

\* C23: once set_state(s, k, v) has returned for a value json can encode,
\* get_state(s, k) returns v, and keeps doing so across every step that is
\* not a set_state or clear_session of s (in both backends).
C23_StateRoundTrip ==
  /\ [][\A s \in SessionIds, k \in StateKeys :
          /\ (Returned(event', "set_state", s) /\ event'.key = k
              /\ JsonDumps(event'.value) # TypeError)
               => StoredState(s, k)' = event'.value
          /\ ~(event'.op \in StateWriters /\ event'.sid = s)
               => StoredState(s, k)' = StoredState(s, k)]_vars
  /\ [](\A s \in SessionIds :
          Returned(event, "get_state", s)
            => event.result = StoredState(s, event.key))

\* C24: the backend keeps the sessions apart: no step of a call for one
\* session (set_session_stage, delete_session_stage, set_state,
\* clear_session, or a read) changes what get_session_stage or get_state
\* returns for another session, also when both hold the same key.
C24_SessionsPartitioned ==
  [][\A s2 \in SessionIds, k \in StateKeys :
       event'.sid # s2 =>
         /\ StoredStage(s2)' = StoredStage(s2)
         /\ StoredState(s2, k)' = StoredState(s2, k)]_vars

\* clear_session("A") has returned while B holds a stage and the same key
C24_Witness ==
  /\ backend = "postgres"
  /\ Returned(event, "clear_session", "A")
  /\ SelectStage("B") = "checkout"
  /\ SelectState("B", WrittenKey) = PyStr

\* The session is gone from the backend in use
Cleared(sid) ==
  /\ StoredStage(sid) = None
  /\ \A k \in StateKeys : StoredState(sid, k) = None

\* This step is the commit of the transaction of a call of `op` that no
\* committed write for the same session has overlapped
CommitsAlone(rid, op) ==
  /\ reqs[rid].pc = "transaction"
  /\ reqs[rid].op = op
  /\ ~reqs[rid].overlapped
  /\ reqs'[rid] = Idle
  /\ event'.kind = "response"

\* C25: when clear_session(s) has returned, whatever was written for s
\* before, get_session_stage(s) returns none and get_state(s, k) returns none
\* for every key (a write that commits while the clear is in progress is not
\* one that preceded it).
C25_ClearRemovesAll ==
  [][/\ \A s \in SessionIds :
          (backend = "memory" /\ Returned(event', "clear_session", s))
            => Cleared(s)'
     /\ \A rid \in RequestIds, s \in SessionIds :
          (CommitsAlone(rid, "clear_session") /\ reqs[rid].sid = s)
            => Cleared(s)']_vars

\* clear_session("A") has returned and left nothing of A; B is still there
C25_Witness ==
  /\ backend = "memory"
  /\ Returned(event, "clear_session", "A")
  /\ Cleared("A")
  /\ BackendGetSessionStage("B") = "browse"
  /\ BackendGetState("B", WrittenKey) = PyTuple

CompletesAlone(op, sid) ==
  \/ backend = "memory" /\ Returned(event', op, sid)
  \/ \E rid \in RequestIds : CommitsAlone(rid, op) /\ reqs[rid].sid = sid

\* C27: delete_session_stage and clear_session are idempotent and safe on
\* sessions that are absent: either of them leaves nothing for a second
\* application to remove, applied to a session that has nothing stored it
\* changes nothing, applied twice in a row the second changes nothing, and
\* absence makes neither of them raise.
C27_DeleteClearIdempotent ==
  /\ [][\A s \in SessionIds :
          /\ CompletesAlone("delete_session_stage", s) =>
               /\ StoredStage(s)' = None
               /\ StoredStage(s) = None =>
                    UNCHANGED <<session_stages, session_state,
                                concierge_session_stages, concierge_session_state>>
          /\ CompletesAlone("clear_session", s) =>
               /\ Cleared(s)'
               /\ Cleared(s) =>
                    UNCHANGED <<session_stages, session_state,
                                concierge_session_stages, concierge_session_state>>
          /\ \A op \in {"delete_session_stage", "clear_session"} :
               (backend = "memory" /\ Returned(event, op, s)
                /\ Returned(event', op, s))
                 => UNCHANGED <<session_stages, session_state>>]_vars
  /\ []((event.op \in {"delete_session_stage", "clear_session"}
         /\ event.kind = "exception")
          => backend = "postgres" /\ event.result = OperationalError)

\* delete_session_stage has returned for a session of a store that holds
\* nothing
C27_Witness ==
  /\ backend = "memory"
  /\ Returned(event, "delete_session_stage", "A")
  /\ session_stages = Empty
  /\ session_state = Empty

\* C28: a read of something never written is not an error and creates
\* nothing: get_session_stage of a session without a stage returns none,
\* get_state returns none for a session without state and for a key the
\* session does not hold, and no read changes the store.
C28_ReadsOfNothing ==
  /\ [](\A s \in SessionIds :
          /\ (Returned(event, "get_session_stage", s) /\ backend = "memory"
              /\ s \notin DOMAIN session_stages) => event.result = None
          /\ (Returned(event, "get_state", s) /\ backend = "memory"
              /\ (s \notin DOMAIN session_state
                  \/ event.key \notin DOMAIN session_state[s]))
               => event.result = None
          /\ (Returned(event, "get_session_stage", s) /\ backend = "postgres"
              /\ s \notin DOMAIN concierge_session_stages) => event.result = None
          /\ (Returned(event, "get_state", s) /\ backend = "postgres"
              /\ <<s, event.key>> \notin DOMAIN concierge_session_state)
               => event.result = None)
  /\ []((backend = "memory" /\ event.op \in {"get_session_stage", "get_state"})
          => event.kind = "response")
  /\ [][event'.op \in {"get_session_stage", "get_state"}
          => UNCHANGED <<session_stages, session_state,
                         concierge_session_stages, concierge_session_state>>]_vars

\* get_state of a key that a known session does not hold has returned none
C28_Witness ==
  /\ backend = "memory"
  /\ Returned(event, "get_state", "A")
  /\ event.key = "missing_key"
  /\ event.result = None
  /\ "A" \in DOMAIN session_state
  /\ "B" \notin DOMAIN session_state

\* C29: the in-memory and the database backend cannot be told apart: when
\* the same calls are made on both, starting from empty stores, every read
\* (get_session_stage, get_state) returns the same value in both.
C29_BackendsEquivalent ==
  (event.phase = "both" /\ event.op \in {"get_session_stage", "get_state"})
    => event.pg_result = event.result

\* C30: a backend call that fails raises to its caller and leaves the store
\* as it was: the step that raises changes no stored stage or value and ends
\* the call, so that nothing the call had executed is applied later. (A
\* set_state that fails keeps the previous value of the key; a clear_session
\* whose second DELETE fails removes no stage either.)
C30_FailureChangesNothing ==
  [][event'.kind = "exception" =>
       /\ UNCHANGED <<session_stages, session_state,
                      concierge_session_stages, concierge_session_state>>
       /\ event'.executed = 0 => UNCHANGED reqs
       /\ event'.executed > 0 =>
            \E rid \in RequestIds :
              /\ reqs[rid].pc = "transaction"
              /\ reqs[rid].op = event'.op /\ reqs[rid].sid = event'.sid
              /\ reqs' = [reqs EXCEPT ![rid] = Idle]]_vars

\* clear_session("A") has raised at its second DELETE, after the first had
\* matched the stage row, and the stage and the value of A are still there
C30_Witness ==
  /\ backend = "postgres"
  /\ event.kind = "exception"
  /\ event.op = "clear_session"
  /\ event.sid = "A"
  /\ event.executed = 1
  /\ SelectStage("A") = "browse"
  /\ SelectState("A", WrittenKey) = PyStr
  /\ \A rid \in RequestIds : reqs[rid] = Idle

\* The place of a name in a sequence without repetitions
Position(seq, x) == CHOOSE i \in DOMAIN seq : seq[i] = x

\* C31: list_tools returns the visible tools in a stable order: the tools
\* of the current stage, each once, in the order in which they were
\* registered, then proceed_to_next_stage when the stage has transitions,
\* then terminate_session as the last entry; a list_tools that follows
\* another of the same session with no step in between returns the same
\* sequence.
C31_ListToolsOrder ==
  /\ [](IsResponse("list_tools") =>
          LET tools == event.result.tools
              q == StageOf(event.sid)
              n == Cardinality(ToolsOf(q))
          IN /\ Len(tools) >= n + 1
             /\ {tools[i] : i \in 1..n} = ToolsOf(q)
             /\ \A i, j \in 1..n :
                  i < j => Position(wf.registered, tools[i])
                             < Position(wf.registered, tools[j])
             /\ tools[Len(tools)] = TERMINATE
             /\ AllowedOf(q) # <<>> =>
                  Len(tools) = n + 2 /\ tools[n + 1] = PROCEED
             /\ AllowedOf(q) = <<>> => Len(tools) = n + 1)
  /\ [][(IsResponse("list_tools") /\ event'.kind = "response"
         /\ event'.op = "list_tools" /\ event'.sid = event.sid)
          => event'.result = event.result]_vars

\* A list of the checkout stage, whose own list names pay first: add_to_cart,
\* registered earlier, comes first, and the two synthetic tools are last
C31_Witness ==
  /\ wf = ReorderedWorkflow
  /\ IsResponse("list_tools")
  /\ event.sid = "A"
  /\ event.result.tools = <<"add_to_cart", "pay", PROCEED, TERMINATE>>

\* C32: a read of the chart widget fails while show_chart has never been
\* called by anyone; otherwise it renders what a call of show_chart produced
\* and the widget holds; and a session that has not called show_chart itself
\* is never served a rendering of another session's call.
C32_WidgetLastArgsPerSession ==
  [][(event'.phase = "bridge" /\ event'.op = "read_resource"
      /\ event'.name = ChartUri)
       => LET own == called[event'.sid][ChartUri]
              any == {called[s][ChartUri] : s \in SessionIds} \ {Unset}
          IN /\ any = {} => event'.kind = "exception"
             /\ any # {} => /\ event'.kind = "response"
                            /\ \E v \in any : event'.result.text = HtmlFn(v)
                            /\ event'.result.text = HtmlFn(widgets[ChartUri].last_args)
             /\ own = Unset => event'.kind = "exception"]_vars

\* Session B reads the chart that only session A has asked for
C32_Witness ==
  /\ event.phase = "bridge" /\ event.op = "read_resource"
  /\ event.name = ChartUri /\ event.sid = "B"
  /\ called["B"][ChartUri] = Unset
  /\ called["A"][ChartUri] # Unset
  /\ event.kind = "response"

\* C33: with the telemetry wrappers installed, every call_tool and
\* read_resource request ends as the original handler ends it (the same
\* result, or the same exception), leaves the widgets as the original handler
\* leaves them, and tracks exactly one record, which names the request and
\* says whether it failed.
C33_TelemetryTransparent ==
  [][(event'.phase = "bridge" /\ handlers[event'.op] # "original")
       => LET inner == IF event'.op = "read_resource"
                       THEN ReadResourceWithMeta(event'.name, event'.under)
                       ELSE CallToolHandler(event'.uri, event'.fn, event'.caught)
          IN /\ event'.kind = inner.kind
             /\ event'.result = inner.result
             /\ Len(event'.tracked) = 1
             /\ event'.tracked[1].resource_name = event'.name
             /\ event'.tracked[1].is_error = (inner.kind = "exception")
             /\ event'.op = "read_resource" => UNCHANGED widgets
             /\ event'.op = "call_tool"
                  => widgets' = LastArgsAfter(event'.uri, event'.fn)]_vars

\* A wrapped request that raised, and one that returned
C33_Witness ==
  /\ event.phase = "bridge" /\ handlers.read_resource = "wrapped_read"
  /\ event.op = "read_resource" /\ event.kind = "exception"
  /\ Len(event.tracked) = 1 /\ event.tracked[1].is_error
  /\ widgets[ChartUri].last_args \in ToolResults


\* C34: every write of a session's stage by proceed_to_next_stage goes from
\* the stage stored immediately before the write (the initial stage when none
\* is stored) to a stage among that stage's allowed transitions, also when
\* requests of the same session are served by processes that share the
\* database.
C34_StoredStagePath ==
  [][(event'.phase = "pod" /\ event'.op = PROCEED /\ event'.kind = "response"
      /\ "status" \in DOMAIN event'.result /\ event'.sid # NoSession
      /\ Get(concierge_session_stages', event'.sid, None)
           # Get(concierge_session_stages, event'.sid, None))
       => /\ Get(concierge_session_stages', event'.sid, None) = event'.target
          /\ event'.target \in Range(Transitions(PodGetSessionStage(event'.sid)))]_vars

\* Two processes have checked a transition of the same session from the
\* same stage and one of them has written
C34_Witness ==
  /\ event.phase = "pod" /\ event.op = PROCEED /\ event.kind = "response"
  /\ event.sid = "A" /\ "status" \in DOMAIN event.result
  /\ \E p \in Pods : /\ pods[p] # Idle /\ pods[p].op = PROCEED
                      /\ pods[p].sid = "A"
                      /\ pods[p].current = event.result.from_stage
                      /\ pods[p].target # event.target


\* The transition records of a history, in order
TransitionRecords(h) == SelectSeq(h, LAMBDA r : r.action = "transition")

\* C35: in every state of an Orchestrator the transition records of its
\* history form a chain: the first starts at the initial stage, each starts
\* where the one before ended, each is an allowed transition, and the last
\* ends at current_stage; with no transition record current_stage is the
\* initial stage.
C35_HistoryChain ==
  engine = "core" =>
    \A s \in SessionIds :
      LET t == TransitionRecords(history[s])
      IN /\ t = <<>> => current_stage[s] = wf.order[1]
         /\ t # <<>> => /\ t[1].from = wf.order[1]
                        /\ t[Len(t)].to = current_stage[s]
         /\ \A i \in 1..Len(t) : t[i].to \in Range(wf.transitions[t[i].from])
         /\ \A i \in 2..Len(t) : t[i].from = t[i - 1].to

\* A history with two transition records, the second one leading to the
\* current stage
C35_Witness ==
  /\ engine = "core"
  /\ \E s \in SessionIds :
       LET t == TransitionRecords(history[s])
       IN /\ Len(t) >= 2
          /\ t[2].from = t[1].to
          /\ t[Len(t)].to = current_stage[s]


\* C36: a list_tools request changes nothing in the state backend, for a
\* session with a stored stage and for a session id seen for the first time
\* (which gets no stage entry and no key), and nothing in the handlers that
\* are suspended; what a later request reads is what it would have read
\* without the list_tools request.
C36_ListToolsReadOnly ==
  [][(event'.kind = "response" /\ event'.op = "list_tools")
       => /\ UNCHANGED <<session_stages, session_state, concierge_session_stages,
                         concierge_session_state, reqs>>
          /\ \A s \in SessionIds :
               /\ s \notin DOMAIN session_stages => s \notin DOMAIN session_stages'
               /\ s \notin DOMAIN session_state => s \notin DOMAIN session_state'
               /\ GetSessionStage(s) = Get(session_stages', s, DefaultStage)]_vars

\* list_tools answered for a session without an entry, while another session
\* has one
C36_Witness ==
  /\ IsResponse("list_tools") /\ event.sid = "A"
  /\ "A" \notin DOMAIN session_stages
  /\ "B" \in DOMAIN session_stages
  /\ event.result.tools # <<>>


\* C37: the stage of a session and its key/value data are stored apart: no
\* step of set_session_stage, delete_session_stage or get_session_stage
\* changes what get_state returns for any session and key, no step of
\* set_state or get_state changes what get_session_stage returns, and a step
\* after which both the stage and a key of a session are gone is a step of
\* clear_session for that session (in both backends).
C37_StageAndStateIndependent ==
  [][\A s \in SessionIds, k \in StateKeys :
       /\ event'.op \in {"set_session_stage", "delete_session_stage",
                         "get_session_stage"}
            => StoredState(s, k)' = StoredState(s, k)
       /\ event'.op \in {"set_state", "get_state"}
            => StoredStage(s)' = StoredStage(s)
       /\ (/\ StoredStage(s) # None /\ StoredStage(s)' = None
           /\ StoredState(s, k) # None /\ StoredState(s, k)' = None)
            => event'.op = "clear_session" /\ event'.sid = s]_vars

\* delete_session_stage has returned for a session whose key is still stored
C37_Witness ==
  /\ Returned(event, "delete_session_stage", "A")
  /\ StoredStage("A") = None
  /\ StoredState("A", WrittenKey) = PyStr


\* C38: process_action with an elicit action, a respond action or an action
\* of an unknown type leaves current_stage, state and history (and the local
\* state of the stages and the suspended tool actions) as they were, and
\* answers: an elicit envelope, a response, and for the unknown type an error
\* response, never an exception.
C38_PassiveActionsChangeNothing ==
  [][(event'.phase = "start" /\ event'.op \in {"elicit", "respond", "bogus"})
       => /\ UNCHANGED <<current_stage, state, history, local_state, reqs>>
          /\ event'.kind = "response"
          /\ event'.result.type =
               (CASE event'.op = "elicit" -> "elicit"
                  [] event'.op = "respond" -> "response"
                  [] OTHER -> "error")]_vars

\* An action of an unknown type answered for a session that has moved on and
\* has a history
C38_Witness ==
  /\ engine = "core"
  /\ event.kind = "response" /\ event.op = "bogus"
  /\ event.result.type = "error"
  /\ history[event.sid] # <<>>
  /\ current_stage[event.sid] # wf.order[1]


\* C39: validate_transition looks at adjacency first: for a target that is
\* not an allowed transition of the current stage the Orchestrator answers
\* with the error that carries the allowed list and no missing list, also
\* when the prerequisites of the target are unmet (never elicit_required);
\* for an allowed, declared target with unmet prerequisites it answers
\* elicit_required with the missing keys; and it moves only when the target
\* is allowed and its prerequisites are met.
C39_AdjacencyBeforePrerequisites ==
  [][(event'.phase = "start" /\ event'.op = "transition")
       => LET from == current_stage[event'.sid]
              to == event'.target
              allowed == wf.transitions[from]
              unmet == IF to \in DOMAIN wf.prerequisites
                       THEN wf.prerequisites[to] \ DOMAIN state[event'.sid]
                       ELSE {}
          IN /\ to \notin Range(allowed)
                  => /\ event'.kind = "response"
                     /\ event'.result.type = "error"
                     /\ event'.result.allowed = allowed
                     /\ "missing" \notin DOMAIN event'.result
                     /\ UNCHANGED <<current_stage, history>>
             /\ (to \in Range(allowed) /\ to \in DOMAIN wf.tools /\ unmet # {})
                  => /\ event'.kind = "response"
                     /\ event'.result.type = "elicit_required"
                     /\ event'.result.missing = unmet
             /\ (event'.kind = "response" /\ event'.result.type = "transitioned")
                  => to \in Range(allowed) /\ unmet = {}]_vars

\* A target that is not allowed and whose prerequisites are unmet was
\* answered with the adjacency error
C39_Witness ==
  /\ engine = "core" /\ wf = StockWorkflow
  /\ event.kind = "response" /\ event.op = "transition"
  /\ current_stage[event.sid] = "portfolio"
  /\ event.target = "transact"
  /\ wf.prerequisites["transact"] \ DOMAIN state[event.sid] # {}
  /\ event.result.type = "error"
  /\ event.result.allowed = <<"browse">>


====
